---------------------------- MODULE Spec2Model ----------------------------
(***************************************************************************)
(* Combat / progression core of VERTA (Game.ts, AreaPulse, CombatSystem,   *)
(* ProgressionSystem, PlayerStats, Enemy, EnemySpawner).                   *)
(*                                                                         *)
(* Units.  The code computes with IEEE doubles; the model computes with    *)
(* exact integers in scaled units:                                         *)
(*   time        1 tick  = 1/30 s      (baseCooldown 1.0 s = 30 ticks)     *)
(*   health      1 unit  = 1/6 hp      (100 hp = 600, 25 hp/s = 5 / tick)  *)
(*   multipliers 1 unit  = 0.01        (1.0 = 100, +0.1 = +10)             *)
(*   pulseAnimation      = 1/30        (+= deltaTime * 3  is  += 3 * dt)   *)
(*   radius      1 unit  = 1 world unit                                    *)
(*   XP          as in the code                                            *)
(*                                                                         *)
(* Geometry.  Positions are driven by keyboard input and Math.random.  In   *)
(* Spec the two distance tests of a frame are inputs of the frame: `reach` *)
(* is the set of enemies whose distance to the pulse origin is             *)
(* <= currentRadius, `touch` says whether the enemies are within contact   *)
(* range of the player; positions are not tracked there.  SpecGeo tracks   *)
(* positions on a grid and computes both tests from them.                  *)
(***************************************************************************)
EXTENDS Integers, Sequences, FiniteSets, TLC

VARIABLES
    game,         \* Game: isRunning, isGameOver, currentWave, enemies, pending rAF callbacks, clock
    playerStats,  \* PlayerStats object owned by Game
    progression,  \* ProgressionSystem: currentXP, xpToNextLevel, currentWave
    weapon,       \* AreaPulse
    combat,       \* CombatSystem: hitByCurrentPulse, dyingEnemies
    enemyObj,     \* the Enemy objects still referenced, by identity
    scene,        \* identities of the enemy meshes in the THREE.Scene
    hud,          \* HUD: game-over overlay
    geo,          \* positions: the player's mesh, and per enemy its mesh and wander state
    ui,           \* what the setTimeout callbacks write, and the callbacks pending
    hist          \* history of the run (not program state)

vars == <<game, playerStats, progression, weapon, combat, enemyObj, scene, hud, geo, ui, hist>>

----------------------------------------------------------------------------
(* Bounds of the model *)

MaxFrames == 6      \* game-loop passes explored in one behaviour
MaxDelta == 30      \* longest frame deltaTime, in ticks
MaxLevel == 4       \* levels explored when ProgressionSystem is driven alone
MaxCalls == 4       \* method calls explored in one behaviour of SpecGeo
MaxSpawn == 2       \* largest count passed to spawnWave in SpecGeo
MaxWave == 2        \* largest wave passed to spawnWave in SpecGeo
MaxRunFrames == 18  \* game-loop passes explored in one behaviour of SpecRun
MaxRingFrames == 5  \* game-loop passes explored in one behaviour of SpecRing
MaxDeathFrames == 7 \* game-loop passes explored in one behaviour of SpecDeath
MaxUIFrames == 10   \* game-loop passes explored in one behaviour of SpecUI
MaxTimers == 2      \* pending callbacks of one kind beyond which no further frame is explored

DeltaTimes == {1, 2, MaxDelta}

----------------------------------------------------------------------------
(* Program constants *)

baseDamage == 150                \* 25 hp
baseCooldown == 30               \* 1.0 s
baseRadius == 3
deathAnimationDuration == 9      \* 0.3 s
baseXPPerKill == 25
damagePerLevel == 10             \* 0.1
attackRatePerLevel == 5          \* 0.05
speedPerLevel == 3               \* 0.03
initialWaveSize == 3
arenaWidth == 24                 \* new Arena(24, 24)
arenaPadding == 1
spawnMargin == 2
chaserSpeed == 3                 \* world units per second
wandererSpeed == 2
baseSpeed == 8
playerHeight == 8                \* mesh.position.y = 0.8
enemyHeight == 6                 \* mesh.position.y = 0.6
playerRadius == 8                \* 0.8
enemyRadius == 5                 \* 0.5
minDistanceFromPlayer == 5
spawnAttempts == 20              \* attempts < 20

Min(a, b) == IF a <= b THEN a ELSE b
Max(a, b) == IF a >= b THEN a ELSE b

RECURSIVE Pow(_, _)
Pow(b, n) == IF n = 0 THEN 1 ELSE b * Pow(b, n - 1)

SeqToSet(s) == {s[i] : i \in 1..Len(s)}

----------------------------------------------------------------------------
(* PlayerStats *)

createDefaultStats ==
    [damageMultiplier |-> 100, attackRate |-> 100, maxHealth |-> 600,
     currentHealth |-> 600, moveSpeed |-> 100, level |-> 1]

\* Math.floor(100 * Math.pow(1.5, level - 1))
xpForLevel(level) == (100 * Pow(3, level - 1)) \div Pow(2, level - 1)

----------------------------------------------------------------------------
(* AreaPulse *)

\* new THREE.Vector3(x, y, z): x and z in half world units, y in tenths
Vector3(x, y, z) == [x |-> x, y |-> y, z |-> z]

newAreaPulse ==
    [currentCooldown |-> 0, isPulsing |-> FALSE, pulseAnimation |-> 0,
     previousPulseRadius |-> 0, currentPulseRadius |-> 0,
     pulseOrigin |-> Vector3(0, 0, 0), pendingDamage |-> 0]

canAttack(w) == w.currentCooldown <= 0

\* attack() without the canAttack() test
attack_always(w, origin, damageMultiplier) ==
    [weapon |-> [w EXCEPT !.currentCooldown = baseCooldown,
                          !.isPulsing = TRUE,
                          !.pulseAnimation = 0,
                          !.previousPulseRadius = 0,
                          !.currentPulseRadius = 0,
                          !.pulseOrigin = origin,
                          !.pendingDamage = (baseDamage * damageMultiplier) \div 100],
     success |-> TRUE,
     damage |-> (baseDamage * damageMultiplier) \div 100,
     radius |-> 0]

\* attack() with `this.pendingDamage = this.baseDamage`
attack_baseDamage(w, origin, damageMultiplier) ==
    IF ~canAttack(w)
    THEN [weapon |-> w, success |-> FALSE, damage |-> 0, radius |-> 0]
    ELSE [weapon |-> [w EXCEPT !.currentCooldown = baseCooldown,
                               !.isPulsing = TRUE,
                               !.pulseAnimation = 0,
                               !.previousPulseRadius = 0,
                               !.currentPulseRadius = 0,
                               !.pulseOrigin = origin,
                               !.pendingDamage = baseDamage],
          success |-> TRUE,
          damage |-> (baseDamage * damageMultiplier) \div 100,
          radius |-> 0]

\* attack(origin, damageMultiplier): [weapon after, AttackResult.success, .damage, .radius]
attack(w, origin, damageMultiplier) ==
    IF ~canAttack(w)
    THEN [weapon |-> w, success |-> FALSE, damage |-> 0, radius |-> 0]
    ELSE [weapon |-> [w EXCEPT !.currentCooldown = baseCooldown,
                               !.isPulsing = TRUE,
                               !.pulseAnimation = 0,
                               !.previousPulseRadius = 0,
                               !.currentPulseRadius = 0,
                               !.pulseOrigin = origin,
                               !.pendingDamage = (baseDamage * damageMultiplier) \div 100],
          success |-> TRUE,
          damage |-> (baseDamage * damageMultiplier) \div 100,
          radius |-> 0]

getPulseState(w) ==
    [active |-> w.isPulsing, origin |-> w.pulseOrigin,
     previousRadius |-> w.previousPulseRadius,
     currentRadius |-> w.currentPulseRadius, damage |-> w.pendingDamage]

\* update() without `this.previousPulseRadius = this.currentPulseRadius`
AreaPulse_update_noPrev(w, deltaTime, attackRateMultiplier) ==
    LET w1 == IF w.currentCooldown > 0
              THEN [w EXCEPT !.currentCooldown = w.currentCooldown - deltaTime]
              ELSE w
    IN  IF ~w1.isPulsing THEN w1
        ELSE LET anim == w1.pulseAnimation + deltaTime * 3
                 radius == Min(anim * baseRadius, 9 * baseRadius) \div 9
                 opacity == Max(0, 24 - anim * 2)
                 w2 == [w1 EXCEPT !.pulseAnimation = anim,
                                  !.currentPulseRadius = radius]
             IN  IF opacity <= 0
                 THEN [w2 EXCEPT !.isPulsing = FALSE,
                                 !.pendingDamage = 0,
                                 !.previousPulseRadius = 0,
                                 !.currentPulseRadius = 0]
                 ELSE w2

\* update() that ends the pulse only when `0.8 - this.pulseAnimation * 2` is below 0
AreaPulse_update_lateEnd(w, deltaTime, attackRateMultiplier) ==
    LET w1 == IF w.currentCooldown > 0
              THEN [w EXCEPT !.currentCooldown = w.currentCooldown - deltaTime]
              ELSE w
    IN  IF ~w1.isPulsing THEN w1
        ELSE LET anim == w1.pulseAnimation + deltaTime * 3
                 radius == Min(anim * baseRadius, 9 * baseRadius) \div 9
                 w2 == [w1 EXCEPT !.pulseAnimation = anim,
                                  !.previousPulseRadius = w1.currentPulseRadius,
                                  !.currentPulseRadius = radius]
             IN  IF 24 - anim * 2 < 0
                 THEN [w2 EXCEPT !.isPulsing = FALSE,
                                 !.pendingDamage = 0,
                                 !.previousPulseRadius = 0,
                                 !.currentPulseRadius = 0]
                 ELSE w2

\* update() with `this.currentCooldown -= deltaTime * 10`
AreaPulse_update_fastCooldown(w, deltaTime, attackRateMultiplier) ==
    LET w1 == IF w.currentCooldown > 0
              THEN [w EXCEPT !.currentCooldown = w.currentCooldown - deltaTime * 10]
              ELSE w
    IN  IF ~w1.isPulsing THEN w1
        ELSE LET anim == w1.pulseAnimation + deltaTime * 3
                 radius == Min(anim * baseRadius, 9 * baseRadius) \div 9
                 opacity == Max(0, 24 - anim * 2)
                 w2 == [w1 EXCEPT !.pulseAnimation = anim,
                                  !.previousPulseRadius = w1.currentPulseRadius,
                                  !.currentPulseRadius = radius]
             IN  IF opacity <= 0
                 THEN [w2 EXCEPT !.isPulsing = FALSE,
                                 !.pendingDamage = 0,
                                 !.previousPulseRadius = 0,
                                 !.currentPulseRadius = 0]
                 ELSE w2

\* update(deltaTime, attackRateMultiplier); attackRateMultiplier is not read
AreaPulse_update(w, deltaTime, attackRateMultiplier) ==
    LET w1 == IF w.currentCooldown > 0
              THEN [w EXCEPT !.currentCooldown = w.currentCooldown - deltaTime]
              ELSE w
    IN  IF ~w1.isPulsing THEN w1
        ELSE LET anim == w1.pulseAnimation + deltaTime * 3
                 \* progress = min(anim / 0.3, 1); radius = progress * baseRadius
                 radius == Min(anim * baseRadius, 9 * baseRadius) \div 9
                 \* opacity = max(0, 0.8 - anim * 2), in 1/30
                 opacity == Max(0, 24 - anim * 2)
                 w2 == [w1 EXCEPT !.pulseAnimation = anim,
                                  !.previousPulseRadius = w1.currentPulseRadius,
                                  !.currentPulseRadius = radius]
             IN  IF opacity <= 0
                 THEN [w2 EXCEPT !.isPulsing = FALSE,
                                 !.pendingDamage = 0,
                                 !.previousPulseRadius = 0,
                                 !.currentPulseRadius = 0]
                 ELSE w2

----------------------------------------------------------------------------
(* Enemy and EnemySpawner *)

\* the constructor with `this.maxHealth = 20` for chasers, whatever the wave
newEnemy_flatChaser(type, wave) ==
    LET maxHealth == IF type = "chaser" THEN 120
                                        ELSE 300 + (wave - 1) * 150
    IN  [type |-> type, maxHealth |-> maxHealth, currentHealth |-> maxHealth,
         isAlive |-> TRUE]

\* new Enemy(type, position, wave)
newEnemy(type, wave) ==
    LET maxHealth == IF type = "chaser" THEN 120 + (wave - 1) * 90      \* 20 + (wave-1)*15
                                        ELSE 300 + (wave - 1) * 150     \* 50 + (wave-1)*25
    IN  [type |-> type, maxHealth |-> maxHealth, currentHealth |-> maxHealth,
         isAlive |-> TRUE]

\* spawnWave() with `const type = 'chaser'`
spawnWave_allChasers(count, wave, firstId) ==
    [id \in firstId..(firstId + count - 1) |-> newEnemy("chaser", wave)]

\* spawnWave(count, playerPosition, wave): the new objects, identities firstId..firstId+count-1
spawnWave(count, wave, firstId) ==
    [id \in firstId..(firstId + count - 1) |->
        newEnemy(IF (id - firstId) % 2 = 0 THEN "chaser" ELSE "wanderer", wave)]

----------------------------------------------------------------------------
(* CombatSystem *)

newCombatSystem == [hitByCurrentPulse |-> {}, dyingEnemies |-> <<>>]

\* applyDamage() without `enemy.currentHealth = 0`
CombatSystem_applyDamage_noClamp(enemy, damage) ==
    LET h == enemy.currentHealth - damage
    IN  IF h <= 0
        THEN [enemy |-> [enemy EXCEPT !.currentHealth = h, !.isAlive = FALSE], killed |-> TRUE]
        ELSE [enemy |-> [enemy EXCEPT !.currentHealth = h], killed |-> FALSE]

\* applyDamage() without `enemy.isAlive = false`
CombatSystem_applyDamage_keepAlive(enemy, damage) ==
    LET h == enemy.currentHealth - damage
    IN  IF h <= 0
        THEN [enemy |-> [enemy EXCEPT !.currentHealth = 0], killed |-> TRUE]
        ELSE [enemy |-> [enemy EXCEPT !.currentHealth = h], killed |-> FALSE]

\* private applyDamage(enemy, damage): [enemy after, returned flag]
CombatSystem_applyDamage(enemy, damage) ==
    LET h == enemy.currentHealth - damage
    IN  IF h <= 0
        THEN [enemy |-> [enemy EXCEPT !.currentHealth = 0, !.isAlive = FALSE], killed |-> TRUE]
        ELSE [enemy |-> [enemy EXCEPT !.currentHealth = h], killed |-> FALSE]

startDeathAnimation(c, id) ==
    [c EXCEPT !.dyingEnemies = Append(@, [enemy |-> id, timer |-> deathAnimationDuration])]

\* the forEach body without `if (this.hitByCurrentPulse.has(enemy)) return`
pulseHitEnemy_noDedup(acc, pulseState, id, reach) ==
    LET enemy == acc.objs[id]
    IN  IF ~enemy.isAlive THEN acc
        ELSE IF ~(id \in reach) THEN acc
        ELSE LET r == CombatSystem_applyDamage(enemy, pulseState.damage)
                 c1 == [acc.combat EXCEPT !.hitByCurrentPulse = @ \cup {id}]
             IN  [combat |-> IF r.killed THEN startDeathAnimation(c1, id) ELSE c1,
                  objs |-> [acc.objs EXCEPT ![id] = r.enemy],
                  events |-> Append(acc.events,
                                    [enemy |-> id, damage |-> pulseState.damage,
                                     killed |-> r.killed,
                                     healthBefore |-> enemy.currentHealth])]

\* the body of enemies.forEach in processPulseHits, for the enemy `id`;
\* acc = [combat, objs, events]
pulseHitEnemy(acc, pulseState, id, reach) ==
    LET enemy == acc.objs[id]
    IN  IF ~enemy.isAlive THEN acc
        ELSE IF id \in acc.combat.hitByCurrentPulse THEN acc
        ELSE IF ~(id \in reach) THEN acc       \* distance <= pulseState.currentRadius
        ELSE LET r == CombatSystem_applyDamage(enemy, pulseState.damage)
                 c1 == [acc.combat EXCEPT !.hitByCurrentPulse = @ \cup {id}]
             IN  [combat |-> IF r.killed THEN startDeathAnimation(c1, id) ELSE c1,
                  objs |-> [acc.objs EXCEPT ![id] = r.enemy],
                  events |-> Append(acc.events,
                                    [enemy |-> id, damage |-> pulseState.damage,
                                     killed |-> r.killed,
                                     healthBefore |-> enemy.currentHealth])]

RECURSIVE pulseHitsFrom(_, _, _, _, _)
pulseHitsFrom(acc, pulseState, enemies, reach, i) ==
    IF i > Len(enemies) THEN acc
    ELSE pulseHitsFrom(pulseHitEnemy(acc, pulseState, enemies[i], reach),
                       pulseState, enemies, reach, i + 1)

\* processPulseHits() without `this.hitByCurrentPulse.clear()`
processPulseHits_keepHits(c, objs, pulseState, enemies, reach) ==
    IF ~pulseState.active
    THEN [combat |-> c, objs |-> objs, events |-> <<>>]
    ELSE pulseHitsFrom([combat |-> c, objs |-> objs, events |-> <<>>],
                       pulseState, enemies, reach, 1)

\* processPulseHits(pulseState, enemies): [combat, objs, events]
processPulseHits(c, objs, pulseState, enemies, reach) ==
    IF ~pulseState.active
    THEN [combat |-> [c EXCEPT !.hitByCurrentPulse = {}], objs |-> objs, events |-> <<>>]
    ELSE pulseHitsFrom([combat |-> c, objs |-> objs, events |-> <<>>],
                       pulseState, enemies, reach, 1)

\* checkPlayerCollision() without `if (!enemy.isAlive) continue`
checkPlayerCollision_countDead(objs, enemies, near) ==
    \E i \in 1..Len(enemies) : enemies[i] \in near

\* checkPlayerCollision(playerPosition, enemies): the loop returns true at the
\* first living enemy with distance < playerRadius + 0.5; `near` is the set of
\* enemies that pass the distance test
checkPlayerCollision(objs, enemies, near) ==
    \E i \in 1..Len(enemies) : objs[enemies[i]].isAlive /\ enemies[i] \in near

\* update(deltaTime): [combat, scene]
CombatSystem_update(c, sc, deltaTime) ==
    LET expired == {c.dyingEnemies[i].enemy : i \in
                       {j \in 1..Len(c.dyingEnemies) : c.dyingEnemies[j].timer - deltaTime <= 0}}
        keep(de) == ~(de.timer - deltaTime <= 0)
        kept == SelectSeq(c.dyingEnemies, keep)
    IN  [combat |-> [c EXCEPT !.dyingEnemies =
                        [i \in 1..Len(kept) |-> [kept[i] EXCEPT !.timer = @ - deltaTime]]],
         scene |-> sc \ expired]

----------------------------------------------------------------------------
(* ProgressionSystem *)

newProgressionSystem(initialLevel) ==
    [currentXP |-> 0, xpToNextLevel |-> xpForLevel(initialLevel), currentWave |-> 1]

\* levelUp() without `this.currentXP -= this.xpToNextLevel`
levelUp_keepXP(p, stats) ==
    LET level == stats.level + 1
        healAmount == stats.maxHealth \div 5
    IN  [prog |-> [p EXCEPT !.xpToNextLevel = xpForLevel(level)],
         stats |-> [stats EXCEPT
                        !.level = level,
                        !.damageMultiplier = @ + damagePerLevel,
                        !.attackRate = @ + attackRatePerLevel,
                        !.moveSpeed = @ + speedPerLevel,
                        !.currentHealth = Min(stats.maxHealth, @ + healAmount)],
         leveled |-> TRUE]

\* levelUp() with `this.currentXP = 0` in place of the carry-over
levelUp_dropExcess(p, stats) ==
    LET level == stats.level + 1
        healAmount == stats.maxHealth \div 5
    IN  [prog |-> [p EXCEPT !.currentXP = 0,
                            !.xpToNextLevel = xpForLevel(level)],
         stats |-> [stats EXCEPT
                        !.level = level,
                        !.damageMultiplier = @ + damagePerLevel,
                        !.attackRate = @ + attackRatePerLevel,
                        !.moveSpeed = @ + speedPerLevel,
                        !.currentHealth = Min(stats.maxHealth, @ + healAmount)],
         leveled |-> TRUE]

\* levelUp() without `this.xpToNextLevel = xpForLevel(stats.level)`
levelUp_staleRequirement(p, stats) ==
    LET level == stats.level + 1
        healAmount == stats.maxHealth \div 5
    IN  [prog |-> [p EXCEPT !.currentXP = p.currentXP - p.xpToNextLevel],
         stats |-> [stats EXCEPT
                        !.level = level,
                        !.damageMultiplier = @ + damagePerLevel,
                        !.attackRate = @ + attackRatePerLevel,
                        !.moveSpeed = @ + speedPerLevel,
                        !.currentHealth = Min(stats.maxHealth, @ + healAmount)],
         leveled |-> TRUE]

\* levelUp() with `stats.currentHealth + healAmount` not capped by Math.min
levelUp_uncappedHeal(p, stats) ==
    LET level == stats.level + 1
        healAmount == stats.maxHealth \div 5
    IN  [prog |-> [p EXCEPT !.currentXP = p.currentXP - p.xpToNextLevel,
                            !.xpToNextLevel = xpForLevel(level)],
         stats |-> [stats EXCEPT
                        !.level = level,
                        !.damageMultiplier = @ + damagePerLevel,
                        !.attackRate = @ + attackRatePerLevel,
                        !.moveSpeed = @ + speedPerLevel,
                        !.currentHealth = @ + healAmount],
         leveled |-> TRUE]

\* private levelUp(stats): [prog, stats]
levelUp(p, stats) ==
    LET level == stats.level + 1
        healAmount == stats.maxHealth \div 5        \* maxHealth * 0.2
    IN  [prog |-> [p EXCEPT !.currentXP = p.currentXP - p.xpToNextLevel,
                            !.xpToNextLevel = xpForLevel(level)],
         stats |-> [stats EXCEPT
                        !.level = level,
                        !.damageMultiplier = @ + damagePerLevel,
                        !.attackRate = @ + attackRatePerLevel,
                        !.moveSpeed = @ + speedPerLevel,
                        !.currentHealth = Min(stats.maxHealth, @ + healAmount)],
         leveled |-> TRUE]

\* addXP() that levels up again while the carried XP reaches the next requirement
addXP_again(p, stats, amount) ==
    LET p1 == [p EXCEPT !.currentXP = @ + amount]
    IN  IF p1.currentXP >= p1.xpToNextLevel
        THEN IF p1.currentXP - p1.xpToNextLevel >= xpForLevel(stats.level + 1)
             THEN levelUp(levelUp(p1, stats).prog, levelUp(p1, stats).stats)
             ELSE levelUp(p1, stats)
        ELSE [prog |-> p1, stats |-> stats, leveled |-> FALSE]

\* addXP(stats, amount): [prog, stats, leveled]
addXP(p, stats, amount) ==
    LET p1 == [p EXCEPT !.currentXP = @ + amount]
    IN  IF p1.currentXP >= p1.xpToNextLevel
        THEN levelUp(p1, stats)
        ELSE [prog |-> p1, stats |-> stats, leveled |-> FALSE]

\* awardKillXP() with `const xpGained = this.baseXPPerKill`
killXP_flat(enemyLevel) == baseXPPerKill

\* Math.floor(baseXPPerKill * (1 + (enemyLevel - 1) * 0.5))
killXP(enemyLevel) == (baseXPPerKill * (enemyLevel + 1)) \div 2

awardKillXP(p, stats, enemyLevel) == addXP(p, stats, killXP(enemyLevel))

setWave(p, wave) == [p EXCEPT !.currentWave = wave]

\* applyDamage() without `stats.currentHealth = 0`
ProgressionSystem_applyDamage_noClamp(stats, damage) ==
    LET h == stats.currentHealth - damage
    IN  [stats |-> [stats EXCEPT !.currentHealth = h], died |-> h <= 0]

\* applyDamage(stats, damage): [stats, died]
ProgressionSystem_applyDamage(stats, damage) ==
    LET h == stats.currentHealth - damage
    IN  IF h <= 0
        THEN [stats |-> [stats EXCEPT !.currentHealth = 0], died |-> TRUE]
        ELSE [stats |-> [stats EXCEPT !.currentHealth = h], died |-> FALSE]

\* reset(): called by Game.restart; the method body is not part of the sources at
\* hand, it is taken from the description of restart (XP counters and wave back
\* to their initial values)
reset(p) == newProgressionSystem(1)

----------------------------------------------------------------------------
(* Game *)

\* The whole program state as one record, so that handlers compose
Cur ==
    [game |-> game, playerStats |-> playerStats, progression |-> progression,
     weapon |-> weapon, combat |-> combat, enemyObj |-> enemyObj, scene |-> scene,
     hud |-> hud, geo |-> geo, ui |-> ui, hist |-> hist]

AliveIds(g) == {id \in SeqToSet(g.game.enemies) : g.enemyObj[id].isAlive}

\* `const contactDamage = 25` for every frame, whatever its length
ContactDamage_perFrame(deltaTime) == 150

\* 25 * deltaTime
ContactDamage(deltaTime) == 5 * deltaTime

CountEvents(events, id, onlyKills) ==
    Cardinality({i \in 1..Len(events) :
                    events[i].enemy = id /\ (onlyKills => events[i].killed)})

\* spawnEnemyWave(count)
spawnEnemyWave(g, count) ==
    LET fresh == spawnWave(count, g.game.currentWave, g.game.nextId)
        ids == [i \in 1..count |-> g.game.nextId + i - 1]
    IN  [g EXCEPT !.game.enemies = @ \o ids,
                  !.game.nextId = @ + count,
                  !.enemyObj = fresh @@ @,
                  !.scene = @ \cup DOMAIN fresh]

\* the forEach without `if (event.killed)`
RECURSIVE awardKills_everyHit(_, _, _, _)
awardKills_everyHit(acc, events, currentWave, i) ==
    IF i > Len(events) THEN acc
    ELSE LET r == awardKillXP(acc.prog, acc.stats, currentWave)
         IN  awardKills_everyHit([prog |-> r.prog, stats |-> r.stats,
                                  awards |-> acc.awards + 1,
                                  levelUps |-> acc.levelUps + (IF r.leveled THEN 1 ELSE 0),
                                  xp |-> acc.xp + killXP(currentWave)],
                                 events, currentWave, i + 1)

\* damageEvents.forEach(event => { if (event.killed) awardKillXP(playerStats, currentWave) })
\* acc = [prog, stats] and the history counters awards, levelUps, xp
RECURSIVE awardKills(_, _, _, _)
awardKills(acc, events, currentWave, i) ==
    IF i > Len(events) THEN acc
    ELSE IF ~events[i].killed THEN awardKills(acc, events, currentWave, i + 1)
    ELSE LET r == awardKillXP(acc.prog, acc.stats, currentWave)
         IN  awardKills([prog |-> r.prog, stats |-> r.stats,
                         awards |-> acc.awards + 1,
                         levelUps |-> acc.levelUps + (IF r.leveled THEN 1 ELSE 0),
                         xp |-> acc.xp + killXP(currentWave)],
                        events, currentWave, i + 1)

\* gameOver() without `this.isRunning = false`
gameOver_keepRunning(g) ==
    [g EXCEPT !.game.isGameOver = TRUE,
              !.hud.gameOverVisible = TRUE,
              !.hist.gameOverCalls = @ + 1]

\* gameOver()
gameOver(g) ==
    [g EXCEPT !.game.isGameOver = TRUE,
              !.game.isRunning = FALSE,
              !.hud.gameOverVisible = TRUE,
              !.hist.gameOverCalls = @ + 1]

\* the auto-attack one frame late: only when canAttack() held before update() too
autoAttack_nextFrame(w, deltaTime, stats, origin) ==
    LET w1 == AreaPulse_update(w, deltaTime, stats.attackRate)
    IN  IF canAttack(w1) /\ canAttack(w)
        THEN attack(w1, origin, stats.damageMultiplier)
        ELSE [weapon |-> w1, success |-> FALSE, damage |-> 0, radius |-> 0]

\* gameLoop(), lines 136-145: weapon update and auto-attack
\* [weapon after, and the AttackResult, success = FALSE when attack was not called]
autoAttack(w, deltaTime, stats, origin) ==
    LET w1 == AreaPulse_update(w, deltaTime, stats.attackRate)
    IN  IF canAttack(w1)
        THEN attack(w1, origin, stats.damageMultiplier)
        ELSE [weapon |-> w1, success |-> FALSE, damage |-> 0, radius |-> 0]

\* gameLoop(), lines 136-156: weapon, ring hits and XP awards
\* returns g with weapon, combat, enemyObj, progression, playerStats and history updated
loopCombat(g, deltaTime, reach) ==
    LET a == autoAttack(g.weapon, deltaTime, g.playerStats, g.geo.player)
        pulseState == getPulseState(a.weapon)
        hits == processPulseHits(g.combat, g.enemyObj, pulseState, g.game.enemies, reach)
        xp == awardKills([prog |-> g.progression, stats |-> g.playerStats,
                          awards |-> 0, levelUps |-> 0, xp |-> 0],
                         hits.events, g.game.currentWave, 1)
        dead == {id \in DOMAIN g.enemyObj : g.enemyObj[id].isAlive /\ ~hits.objs[id].isAlive}
    IN  [g EXCEPT !.weapon = a.weapon,
                  !.combat = hits.combat,
                  !.enemyObj = hits.objs,
                  !.progression = xp.prog,
                  !.playerStats = xp.stats,
                  !.hist.attacked = a.success,
                  \* frame time since the last successful attack, -1 before the first
                  !.hist.sinceAttack = IF a.success THEN 0
                                       ELSE IF @ < 0 THEN @ ELSE @ + deltaTime,
                  !.hist.events = hits.events,
                  !.hist.pulseHits = [id \in DOMAIN @ |->
                        (IF a.success THEN 0 ELSE @[id]) + CountEvents(hits.events, id, FALSE)],
                  !.hist.killEvents = [id \in DOMAIN @ |->
                        @[id] + CountEvents(hits.events, id, TRUE)],
                  !.hist.killAwards = @ + xp.awards,
                  !.hist.deaths = @ + Cardinality(dead),
                  !.hist.levelUps = xp.levelUps,
                  !.hist.totalXP = @ + xp.xp]

\* the cleanup without `this.currentWave++`
loopCleanup_sameWave(g, deltaTime) ==
    LET u == CombatSystem_update(g.combat, g.scene, deltaTime)
        isAlive(id) == g.enemyObj[id].isAlive
        g1 == [g EXCEPT !.combat = u.combat,
                        !.scene = u.scene,
                        !.game.enemies = SelectSeq(@, isAlive)]
    IN  IF Len(g1.game.enemies) = 0
        THEN LET wave == g1.game.currentWave
             IN  spawnEnemyWave([g1 EXCEPT !.game.currentWave = wave,
                                           !.progression = setWave(@, wave)],
                                initialWaveSize + wave)
        ELSE g1

\* the cleanup with the new wave spawned before `this.currentWave++`
loopCleanup_spawnFirst(g, deltaTime) ==
    LET u == CombatSystem_update(g.combat, g.scene, deltaTime)
        isAlive(id) == g.enemyObj[id].isAlive
        g1 == [g EXCEPT !.combat = u.combat,
                        !.scene = u.scene,
                        !.game.enemies = SelectSeq(@, isAlive)]
    IN  IF Len(g1.game.enemies) = 0
        THEN LET wave == g1.game.currentWave + 1
                 g2 == spawnEnemyWave(g1, initialWaveSize + wave)
             IN  [g2 EXCEPT !.game.currentWave = wave,
                            !.progression = setWave(@, wave)]
        ELSE g1

\* gameLoop(), lines 173-185: death animations, cleanup, wave completion
loopCleanup(g, deltaTime) ==
    LET u == CombatSystem_update(g.combat, g.scene, deltaTime)
        isAlive(id) == g.enemyObj[id].isAlive
        g1 == [g EXCEPT !.combat = u.combat,
                        !.scene = u.scene,
                        !.game.enemies = SelectSeq(@, isAlive)]
    IN  IF Len(g1.game.enemies) = 0
        THEN LET wave == g1.game.currentWave + 1
             IN  spawnEnemyWave([g1 EXCEPT !.game.currentWave = wave,
                                           !.progression = setWave(@, wave)],
                                initialWaveSize + wave)
        ELSE g1

\* lines 158-185 with the death-animation update, the cleanup and the wave
\* check run before gameOver()
loopContact_cleanupFirst(g, deltaTime, contact) ==
    LET g1 == [g EXCEPT !.hist.contact = contact,
                        !.hist.deltaTime = deltaTime,
                        !.hist.contactTime = @ + (IF contact THEN deltaTime ELSE 0)]
        d == ProgressionSystem_applyDamage(g.playerStats, ContactDamage(deltaTime))
    IN  IF contact
        THEN IF d.died
             THEN gameOver(loopCleanup([g1 EXCEPT !.playerStats = d.stats], deltaTime))
             ELSE loopCleanup([g1 EXCEPT !.playerStats = d.stats], deltaTime)
        ELSE loopCleanup(g1, deltaTime)

\* gameLoop(), lines 158-185: contact damage, then gameOver() or the cleanup;
\* g is the state after the XP awards, contact the result of checkPlayerCollision
loopContact(g, deltaTime, contact) ==
    LET g1 == [g EXCEPT !.hist.contact = contact,
                        !.hist.deltaTime = deltaTime,
                        !.hist.contactTime = @ + (IF contact THEN deltaTime ELSE 0)]
        d == ProgressionSystem_applyDamage(g.playerStats, ContactDamage(deltaTime))
    IN  IF contact
        THEN IF d.died
             THEN gameOver([g1 EXCEPT !.playerStats = d.stats])
             ELSE loopCleanup([g1 EXCEPT !.playerStats = d.stats], deltaTime)
        ELSE loopCleanup(g1, deltaTime)

\* gameLoop(), lines 158-185; touch: some enemy of this.enemies is within reach
\* of the player
loopCollision(g, deltaTime, touch) ==
    loopContact(g, deltaTime,
                checkPlayerCollision(g.enemyObj, g.game.enemies,
                                     IF touch THEN SeqToSet(g.game.enemies) ELSE {}))

\* gameLoop() with the contact check and the player damage moved before the
\* weapon update
gameLoop_damageFirst(g, deltaTime, reach, touch) ==
    IF ~g.game.isRunning THEN g
    ELSE LET g0 == [g EXCEPT !.game.rafPending = @ + 1,
                             !.game.clockRunning = TRUE,
                             !.hist.frames = @ + 1]
             contact == checkPlayerCollision(g0.enemyObj, g0.game.enemies,
                                             IF touch THEN SeqToSet(g0.game.enemies) ELSE {})
             d == ProgressionSystem_applyDamage(g0.playerStats, ContactDamage(deltaTime))
             g1 == [g0 EXCEPT !.hist.contact = contact,
                              !.hist.deltaTime = deltaTime,
                              !.hist.contactTime = @ + (IF contact THEN deltaTime ELSE 0),
                              !.playerStats = IF contact THEN d.stats ELSE @]
         IN  IF contact /\ d.died
             THEN gameOver(g1)
             ELSE loopCleanup(loopCombat(g1, deltaTime, reach), deltaTime)

\* gameLoop()
gameLoop(g, deltaTime, reach, touch) ==
    IF ~g.game.isRunning THEN g
    ELSE loopCollision(loopCombat([g EXCEPT !.game.rafPending = @ + 1,   \* requestAnimationFrame
                                            !.game.clockRunning = TRUE,  \* clock.getDelta()
                                            !.hist.frames = @ + 1],
                                  deltaTime, reach),
                       deltaTime, touch)

\* start()
start(g, deltaTime, reach, touch) ==
    gameLoop([g EXCEPT !.game.isRunning = TRUE], deltaTime, reach, touch)

\* restart(), up to the call of start()
restartReset(g) ==
    LET g1 == [g EXCEPT !.playerStats = createDefaultStats,
                        !.game.currentWave = 1,
                        !.progression = reset(@),
                        !.geo.player = Vector3(0, playerHeight, 0),
                        !.scene = @ \ SeqToSet(g.game.enemies),
                        !.game.enemies = <<>>,
                        !.hist.totalXP = 0,
                        !.hist.contactTime = 0]
        g2 == spawnEnemyWave(g1, initialWaveSize)
    IN  [g2 EXCEPT !.game.isGameOver = FALSE,
                   !.hud.gameOverVisible = FALSE]

\* restart()
restart(g, deltaTime, reach, touch) == start(restartReset(g), deltaTime, reach, touch)

\* The Enemy objects the program still holds a reference to
Referenced(g) ==
    SeqToSet(g.game.enemies) \cup g.combat.hitByCurrentPulse
        \cup {g.combat.dyingEnemies[i].enemy : i \in 1..Len(g.combat.dyingEnemies)}

\* The enemies whose material a pending flashEnemy callback holds
TimerEnemies(u) == {u.enemyTimeouts[i].enemy : i \in 1..Len(u.enemyTimeouts)}

Commit(g, op) ==
    LET live == Referenced(g)
        count(f, id) == IF id \in DOMAIN f THEN f[id] ELSE 0
    IN  /\ game' = g.game
        /\ playerStats' = g.playerStats
        /\ progression' = g.progression
        /\ weapon' = g.weapon
        /\ combat' = g.combat
        /\ enemyObj' = [id \in live |-> g.enemyObj[id]]
        /\ scene' = g.scene
        /\ hud' = g.hud
        /\ geo' = g.geo
        /\ ui' = [g.ui EXCEPT !.white = @ \cap (live \cup TimerEnemies(g.ui))]
        /\ hist' = [g.hist EXCEPT !.lastOp = op,
                                  !.pulseHits = [id \in live |-> count(g.hist.pulseHits, id)],
                                  !.killEvents = [id \in live |-> count(g.hist.killEvents, id)]]

\* clock.getDelta(): 0 on the first call, the elapsed time afterwards
Deltas(g) == IF g.game.clockRunning THEN DeltaTimes ELSE {0}

\* The enemy sets that can be within the ring in this frame: none while the
\* radius is 0 (enemy meshes float at y = 0.6, the origin is at y = 0.8)
Reaches(g, deltaTime) ==
    LET w2 == autoAttack(g.weapon, deltaTime, g.playerStats, g.geo.player).weapon
    IN  IF w2.isPulsing /\ w2.currentPulseRadius > 0 THEN SUBSET AliveIds(g) ELSE {{}}

newHistory ==
    [frames |-> 0, lastOp |-> "new", attacked |-> FALSE, events |-> <<>>,
     pulseHits |-> <<>>, killEvents |-> <<>>, killAwards |-> 0, deaths |-> 0,
     levelUps |-> 0, totalXP |-> 0, gameOverCalls |-> 0, amount |-> 0,
     attackResult |-> [success |-> FALSE, damage |-> 0, radius |-> 0],
     charge |-> 0, calls |-> 0, call |-> [count |-> 0, wave |-> 1],
     pulse |-> [active |-> FALSE, origin |-> Vector3(0, 0, 0), previousRadius |-> 0,
                currentRadius |-> 0, damage |-> 0],
     contact |-> FALSE, search |-> <<>>, deltaTime |-> 0, contactTime |-> 0,
     sinceAttack |-> -1, inRange |-> {}, missed |-> {}]

\* HUD: the level-up banner and its timeout, the health-bar glow and the
\* flashDamage timeouts; CombatSystem: the enemies whose material.emissive is
\* white and the flashEnemy timeouts, in the order they were set
newUI ==
    [levelUpVisible |-> FALSE, levelUpTimeout |-> FALSE,
     healthFlash |-> FALSE, damageTimeouts |-> 0,
     white |-> {}, enemyTimeouts |-> <<>>]

\* new Game(container), up to `new EnemySpawner(this.arena.bounds)`
newGameParts ==
    [game |-> [isRunning |-> FALSE, isGameOver |-> FALSE, currentWave |-> 1,
               enemies |-> <<>>, rafPending |-> 0, clockRunning |-> FALSE,
               started |-> FALSE, nextId |-> 1],
     playerStats |-> createDefaultStats,
     progression |-> newProgressionSystem(createDefaultStats.level),
     weapon |-> newAreaPulse,
     combat |-> newCombatSystem,
     enemyObj |-> <<>>,
     scene |-> {},
     hud |-> [gameOverVisible |-> FALSE],
     geo |-> [player |-> Vector3(0, playerHeight, 0), enemy |-> <<>>],
     ui |-> newUI,
     hist |-> newHistory]

\* the variables hold the program state g
InitState(g) ==
    LET live == Referenced(g)
    IN  /\ game = g.game
        /\ playerStats = g.playerStats
        /\ progression = g.progression
        /\ weapon = g.weapon
        /\ combat = g.combat
        /\ enemyObj = g.enemyObj
        /\ scene = g.scene
        /\ hud = g.hud
        /\ geo = g.geo
        /\ ui = g.ui
        /\ hist = [g.hist EXCEPT !.pulseHits = [id \in live |-> 0],
                                 !.killEvents = [id \in live |-> 0]]

\* new Game(container)
Init == InitState(spawnEnemyWave(newGameParts, initialWaveSize))

\* main.ts: game.start()
Start ==
    /\ ~game.started
    /\ \E deltaTime \in Deltas(Cur) :
       \E reach \in Reaches(Cur, deltaTime), touch \in BOOLEAN :
          Commit(start([Cur EXCEPT !.game.started = TRUE], deltaTime, reach, touch), "start")

\* a requestAnimationFrame callback fires: gameLoop()
Frame ==
    /\ game.rafPending > 0
    /\ game.isRunning => hist.frames < MaxFrames
    /\ LET g == [Cur EXCEPT !.game.rafPending = @ - 1]
       IN  \E deltaTime \in Deltas(g) :
           \E reach \in Reaches(g, deltaTime), touch \in BOOLEAN :
              Commit(gameLoop(g, deltaTime, reach, touch), "frame")

\* onKeyDown(event)
KeyDown ==
    \E code \in {"Space", "KeyW"} :
        IF code = "Space" /\ game.isGameOver
        THEN /\ hist.frames < MaxFrames
             /\ LET g == restartReset(Cur)
                IN  \E deltaTime \in Deltas(g) :
                    \E reach \in Reaches(g, deltaTime), touch \in BOOLEAN :
                       Commit(start(g, deltaTime, reach, touch), "restart")
        ELSE UNCHANGED vars

Next == Start \/ Frame \/ KeyDown

Spec == Init /\ [][Next]_vars

----------------------------------------------------------------------------
(* ProgressionSystem and PlayerStats driven through their public methods,  *)
(* in any order and with any argument                                      *)

XPAmounts == {10, 60, 400}

XpCommit(r, op, amount) ==
    /\ progression' = r.prog
    /\ playerStats' = r.stats
    /\ hist' = [hist EXCEPT !.lastOp = op,
                            !.amount = amount,
                            !.levelUps = IF r.leveled THEN 1 ELSE 0,
                            !.totalXP = @ + amount]
    /\ UNCHANGED <<game, weapon, combat, enemyObj, scene, hud, geo, ui>>

XpAddXP ==
    /\ playerStats.level < MaxLevel
    /\ \E amount \in XPAmounts :
          XpCommit(addXP(progression, playerStats, amount), "addXP", amount)

XpAwardKillXP ==
    /\ playerStats.level < MaxLevel
    /\ \E enemyLevel \in 1..3 :
          XpCommit(awardKillXP(progression, playerStats, enemyLevel),
                   "awardKillXP", killXP(enemyLevel))

XpApplyDamage ==
    \E deltaTime \in {MaxDelta, 2 * MaxDelta} :
        LET d == ProgressionSystem_applyDamage(playerStats, ContactDamage(deltaTime))
        IN  XpCommit([prog |-> progression, stats |-> d.stats, leveled |-> FALSE],
                     "applyDamage", 0)

\* what restart() does to the two objects
XpRestart ==
    /\ playerStats.currentHealth = 0
    /\ progression' = reset(progression)
    /\ playerStats' = createDefaultStats
    /\ hist' = [hist EXCEPT !.lastOp = "restart", !.amount = 0, !.levelUps = 0,
                            !.totalXP = 0]
    /\ UNCHANGED <<game, weapon, combat, enemyObj, scene, hud, geo, ui>>

NextXP == XpAddXP \/ XpAwardKillXP \/ XpApplyDamage \/ XpRestart

SpecXP == Init /\ [][NextXP]_vars

----------------------------------------------------------------------------
(* Geometry.  x and z in half world units, y in tenths of a world unit,    *)
(* squared distances in 1/100 of a squared world unit.  Headings are real  *)
(* unit vectors in the code; on the grid every component of a step is      *)
(* rounded toward zero.                                                    *)

Sgn(n) == IF n < 0 THEN -1 ELSE IF n > 0 THEN 1 ELSE 0

\* floor(sqrt(n)), for n <= m * m
ISqrt(n, m) == CHOOSE k \in 0..m : k * k <= n /\ (k + 1) * (k + 1) > n

\* Arena: bounds = +-(width / 2 - padding)
arenaBounds ==
    [minX |-> -(arenaWidth - 2 * arenaPadding), maxX |-> arenaWidth - 2 * arenaPadding,
     minZ |-> -(arenaWidth - 2 * arenaPadding), maxZ |-> arenaWidth - 2 * arenaPadding]

\* a.distanceTo(b), squared
distanceToSq(a, b) ==
    25 * ((a.x - b.x) * (a.x - b.x) + (a.z - b.z) * (a.z - b.z)) + (a.y - b.y) * (a.y - b.y)

\* position.addScaledVector(direction.normalize(), length): the step [x, z]
scaledStep(dx, dz, length) ==
    IF dx = 0 /\ dz = 0 THEN [x |-> 0, z |-> 0]
    ELSE LET d2 == dx * dx + dz * dz
         IN  [x |-> Sgn(dx) * ISqrt((length * length * dx * dx) \div d2, length),
              z |-> Sgn(dz) * ISqrt((length * length * dz * dz) \div d2, length)]

\* speed * deltaTime, in half world units
travel(speed, deltaTime) == (2 * speed * deltaTime) \div 30

\* Enemy.clampToBounds() left out
clampToBounds_none(position, bounds) == position

\* Enemy.clampToBounds(bounds)
clampToBounds(position, bounds) ==
    [position EXCEPT !.x = Max(bounds.minX, Min(bounds.maxX, @)),
                     !.z = Max(bounds.minZ, Min(bounds.maxZ, @))]

\* Enemy.isInBounds(bounds): margin 0.5
isInBounds(position, bounds) ==
    /\ position.x > bounds.minX + 1
    /\ position.x < bounds.maxX - 1
    /\ position.z > bounds.minZ + 1
    /\ position.z < bounds.maxZ - 1

\* the mesh position and wander state of a new Enemy(type, position, wave)
newEnemyGeo(position) ==
    [position |-> [position EXCEPT !.y = enemyHeight], wanderTimer |-> 0,
     wanderDirection |-> [x |-> 0, z |-> 0]]

\* Enemy.updateChaser: o is the enemy's position and wander state
updateChaser(o, deltaTime, playerPosition, bounds) ==
    LET step == scaledStep(playerPosition.x - o.position.x, playerPosition.z - o.position.z,
                           travel(chaserSpeed, deltaTime))
    IN  [o EXCEPT !.position =
            clampToBounds([@ EXCEPT !.x = @ + step.x, !.z = @ + step.z], bounds)]

\* Enemy.updateWanderer: rnd = [timer, heading] is what Math.random yields when
\* a new direction is picked
updateWanderer(o, deltaTime, playerPosition, bounds, rnd) ==
    LET timer == o.wanderTimer - deltaTime
        o1 == IF timer <= 0 \/ ~isInBounds(o.position, bounds)
              THEN [o EXCEPT !.wanderTimer = rnd.timer, !.wanderDirection = rnd.heading]
              ELSE [o EXCEPT !.wanderTimer = timer]
        step == scaledStep(o1.wanderDirection.x, o1.wanderDirection.z,
                           travel(wandererSpeed, deltaTime))
    IN  [o1 EXCEPT !.position =
            clampToBounds([@ EXCEPT !.x = @ + step.x, !.z = @ + step.z], bounds)]

\* Enemy.update() without `if (!this.isAlive) return`
Enemy_update_moveDead(e, o, deltaTime, playerPosition, bounds, rnd) ==
    IF e.type = "chaser"
    THEN updateChaser(o, deltaTime, playerPosition, bounds)
    ELSE updateWanderer(o, deltaTime, playerPosition, bounds, rnd)

\* Enemy.update(deltaTime, playerPosition, bounds): e is the Enemy object
Enemy_update(e, o, deltaTime, playerPosition, bounds, rnd) ==
    IF ~e.isAlive THEN o
    ELSE IF e.type = "chaser"
    THEN updateChaser(o, deltaTime, playerPosition, bounds)
    ELSE updateWanderer(o, deltaTime, playerPosition, bounds, rnd)

\* Player.update(deltaTime, bounds): input from InputManager.getMovementInput(),
\* movement = rightDir * input.x + forwardDir * input.y, normalized
Player_update(position, input, deltaTime, speedMultiplier, bounds) ==
    IF input.x = 0 /\ input.y = 0 THEN position
    ELSE LET step == scaledStep(input.x - input.y, -(input.x + input.y),
                                (2 * baseSpeed * speedMultiplier * deltaTime) \div 3000)
         IN  [position EXCEPT
                 !.x = Max(bounds.minX, Min(bounds.maxX, @ + step.x)),
                 !.z = Max(bounds.minZ, Min(bounds.maxZ, @ + step.z))]

\* the enemies with distance <= radius (world units) from the pulse origin
withinRadius(g, origin, radius) ==
    {id \in SeqToSet(g.game.enemies) :
        distanceToSq(g.geo.enemy[id].position, origin) <= 100 * radius * radius}

\* the enemies with distance < playerRadius + 0.5 from the player
withinContact(g) ==
    {id \in SeqToSet(g.game.enemies) :
        distanceToSq(g.geo.player, g.geo.enemy[id].position)
            < (playerRadius + enemyRadius) * (playerRadius + enemyRadius)}

----------------------------------------------------------------------------
(* Entities, EnemySpawner and the CombatSystem tests driven method by      *)
(* method, with positions: a wave is spawned, the player and the enemies   *)
(* move, rings and contacts are tested                                     *)

GeoDeltas == {15, 30}
\* keys held: none, D, D and S (straight along +x in world coordinates)
Inputs == {[x |-> 0, y |-> 0], [x |-> 1, y |-> 0], [x |-> 1, y |-> -1]}
\* wanderTimer = 1 + Math.random() * 2, and the heading that results
WanderDraws ==
    {[timer |-> 45, heading |-> h] : h \in {[x |-> 1, z |-> 0], [x |-> -1, z |-> -1]}}

\* getRandomPosition(): x and z in [min + margin, max - margin)
RandomPositions ==
    {Vector3(10, 0, 0),
     Vector3(arenaBounds.maxX - 2 * spawnMargin - 1, 0, arenaBounds.maxZ - 2 * spawnMargin - 1)}

\* the PulseState of a pulse started at origin, deltaTime ticks ago:
\* radius 1, radius 3, no longer active
PulseStates(origin) ==
    {getPulseState(AreaPulse_update(attack(newAreaPulse, origin, 100).weapon, deltaTime, 100)) :
        deltaTime \in {1, 3, 4}}

\* the stream of Math.random: `count` times the candidate `first`, then `rest`
Retries == {0, spawnAttempts - 1}
Streams ==
    {[first |-> Vector3(10, 0, 0), count |-> count, rest |-> rest] :
        count \in Retries, rest \in RandomPositions}

\* the i-th position returned by getRandomPosition()
candidate(stream, i) == IF i <= stream.count THEN stream.first ELSE stream.rest

\* the do-while loop with `attempts <= 20`
RECURSIVE findSpawnPosition_oneMore(_, _, _)
findSpawnPosition_oneMore(stream, playerPosition, attempts) ==
    LET position == candidate(stream, attempts + 1)
    IN  IF /\ distanceToSq(position, playerPosition)
                 < 100 * minDistanceFromPlayer * minDistanceFromPlayer
           /\ attempts + 1 <= spawnAttempts
        THEN findSpawnPosition_oneMore(stream, playerPosition, attempts + 1)
        ELSE [position |-> position, attempts |-> attempts + 1]

\* spawnWave: do { position = getRandomPosition(); attempts++ }
\*            while (position.distanceTo(playerPosition) < 5 && attempts < 20)
\* [the accepted position, the candidates drawn]
RECURSIVE findSpawnPosition(_, _, _)
findSpawnPosition(stream, playerPosition, attempts) ==
    LET position == candidate(stream, attempts + 1)
    IN  IF /\ distanceToSq(position, playerPosition)
                 < 100 * minDistanceFromPlayer * minDistanceFromPlayer
           /\ attempts + 1 < spawnAttempts
        THEN findSpawnPosition(stream, playerPosition, attempts + 1)
        ELSE [position |-> position, attempts |-> attempts + 1]

\* hist.search describes the spawnWave call that has just returned
GeoCommit(g, op) ==
    Commit([g EXCEPT !.hist.calls = @ + 1,
                     !.hist.search = IF op = "spawnWave" THEN @ ELSE <<>>], op)

\* new Game(container) before the first wave is spawned
InitGeo == InitState(newGameParts)

\* spawnEnemyWave(count) with currentWave = wave, on an empty enemy array
GeoSpawnWave ==
    /\ hist.calls < MaxCalls
    /\ Len(game.enemies) = 0
    /\ \E count \in 0..MaxSpawn, wave \in {1, MaxWave} :
          LET g == spawnEnemyWave([Cur EXCEPT !.game.currentWave = wave], count)
              ids == SeqToSet(g.game.enemies)
          IN  \E streams \in [ids -> Streams] :
                 LET found == [id \in ids |-> findSpawnPosition(streams[id], geo.player, 0)]
                 IN  GeoCommit([g EXCEPT
                                   !.geo.enemy = [id \in ids |-> newEnemyGeo(found[id].position)],
                                   !.hist.call = [count |-> count, wave |-> wave],
                                   !.hist.search = [i \in 1..count |-> found[g.game.enemies[i]]]],
                               "spawnWave")

\* player.update(deltaTime, bounds)
GeoPlayerUpdate ==
    /\ hist.calls < MaxCalls
    /\ \E input \in Inputs, deltaTime \in GeoDeltas :
          GeoCommit([Cur EXCEPT !.geo.player =
                        Player_update(@, input, deltaTime, playerStats.moveSpeed, arenaBounds)],
                    "playerUpdate")

\* enemy.update(deltaTime, playerPosition, bounds) of one enemy of the array
GeoEnemyUpdate ==
    /\ hist.calls < MaxCalls
    /\ \E id \in SeqToSet(game.enemies), deltaTime \in GeoDeltas, rnd \in WanderDraws :
          GeoCommit([Cur EXCEPT !.geo.enemy[id] =
                        Enemy_update(enemyObj[id], @, deltaTime, geo.player, arenaBounds, rnd)],
                    "enemyUpdate")

\* combatSystem.processPulseHits(pulseState, enemies), the ring around the player
GeoPulseHits ==
    /\ hist.calls < MaxCalls
    /\ \E pulseState \in PulseStates(geo.player) :
          LET hits == processPulseHits(combat, enemyObj, pulseState, game.enemies,
                                       withinRadius(Cur, pulseState.origin,
                                                    pulseState.currentRadius))
          IN  GeoCommit([Cur EXCEPT !.combat = hits.combat,
                                    !.enemyObj = hits.objs,
                                    !.hist.events = hits.events,
                                    !.hist.pulse = pulseState],
                        "processPulseHits")

\* combatSystem.checkPlayerCollision(playerPosition, enemies)
GeoCollision ==
    /\ hist.calls < MaxCalls
    /\ GeoCommit([Cur EXCEPT !.hist.contact =
                      checkPlayerCollision(enemyObj, game.enemies, withinContact(Cur))],
                 "checkPlayerCollision")

\* combatSystem.update(deltaTime)
GeoCombatUpdate ==
    /\ hist.calls < MaxCalls
    /\ \E deltaTime \in GeoDeltas :
          LET u == CombatSystem_update(combat, scene, deltaTime)
          IN  GeoCommit([Cur EXCEPT !.combat = u.combat, !.scene = u.scene], "combatUpdate")

NextGeo ==
    \/ GeoSpawnWave
    \/ GeoPlayerUpdate
    \/ GeoEnemyUpdate
    \/ GeoPulseHits
    \/ GeoCollision
    \/ GeoCombatUpdate

SpecGeo == InitGeo /\ [][NextGeo]_vars

----------------------------------------------------------------------------
(* The game loop with positions: the enemies move, the ring and the        *)
(* contact are tested on the positions of the pass.  The player stands     *)
(* still; frames last 1/30 s, 1/6 s or 1 s                                 *)

RingDeltas(g) == IF g.game.clockRunning THEN {1, 5, 30} ELSE {0}

\* the enemies of a DamageEvent list
KilledOrHit(events) == {events[i].enemy : i \in 1..Len(events)}

\* gameLoop(), lines 128-134: player.update without input, enemy.update of
\* every enemy of this.enemies
ringMove(g, deltaTime, rnd) ==
    [g EXCEPT !.geo.enemy =
        [id \in DOMAIN @ |->
            IF id \in SeqToSet(g.game.enemies)
            THEN Enemy_update(g.enemyObj[id], @[id], deltaTime, g.geo.player, arenaBounds, rnd)
            ELSE @[id]]]

\* the living enemies within baseRadius of the pulse origin
inRing(g) == AliveIds(g) \cap withinRadius(g, g.weapon.pulseOrigin, baseRadius)

\* hist.inRange: the enemies that were alive and within baseRadius of the
\* origin in every pass of the pulse so far and have not been hit by it;
\* hist.missed: what was left of them in the pass in which the pulse ended.
\* g0 is the state before the weapon update of the pass, g1 the state after
\* processPulseHits
ringHistory(g0, g1) ==
    [g1 EXCEPT !.hist.inRange =
                   IF g1.hist.attacked THEN inRing(g1)
                   ELSE IF g1.weapon.isPulsing
                   THEN (@ \cap inRing(g1)) \ KilledOrHit(g1.hist.events)
                   ELSE {},
               !.hist.missed =
                   IF g0.weapon.isPulsing /\ (~g1.weapon.isPulsing \/ g1.hist.attacked)
                   THEN g0.hist.inRange \cap AliveIds(g1)
                           \cap withinRadius(g1, g0.weapon.pulseOrigin, baseRadius)
                   ELSE {}]

\* gameLoop(), lines 136-156, the ring tested on the positions
ringCombat(g, deltaTime) ==
    ringHistory(g,
        loopCombat(g, deltaTime,
                   withinRadius(g, autoAttack(g.weapon, deltaTime, g.playerStats,
                                              g.geo.player).weapon.pulseOrigin,
                                autoAttack(g.weapon, deltaTime, g.playerStats,
                                           g.geo.player).weapon.currentPulseRadius)))

\* gameLoop(), lines 158-185, the contact tested on the positions
ringContact(g, deltaTime) ==
    loopContact(g, deltaTime,
                checkPlayerCollision(g.enemyObj, g.game.enemies, withinContact(g)))

\* the positions of the enemies of this.enemies: those of a wave spawned in
\* this pass are the ones spawnWave found with the random stream
ringPositions(g, stream) ==
    [g EXCEPT !.geo.enemy =
        [id \in SeqToSet(g.game.enemies) |->
            IF id \in DOMAIN @ THEN @[id]
            ELSE newEnemyGeo(findSpawnPosition(stream, g.geo.player, 0).position)]]

\* gameLoop()
ringLoop(g, deltaTime, rnd, stream) ==
    IF ~g.game.isRunning THEN g
    ELSE ringPositions(
             ringContact(
                 ringCombat(
                     ringMove([g EXCEPT !.game.rafPending = @ + 1,
                                        !.game.clockRunning = TRUE,
                                        !.hist.frames = @ + 1],
                              deltaTime, rnd),
                     deltaTime),
                 deltaTime),
             stream)

\* new Game(container): spawnEnemyWave(3) with the player at the origin
InitRing ==
    \E stream \in Streams :
        InitState(ringPositions(spawnEnemyWave(newGameParts, initialWaveSize), stream))

\* main.ts: game.start()
RingStart ==
    /\ ~game.started
    /\ \E deltaTime \in RingDeltas(Cur), rnd \in WanderDraws, stream \in Streams :
          Commit(ringLoop([Cur EXCEPT !.game.started = TRUE, !.game.isRunning = TRUE],
                          deltaTime, rnd, stream), "start")

\* a requestAnimationFrame callback fires: gameLoop()
RingFrame ==
    /\ game.rafPending > 0
    /\ game.isRunning => hist.frames < MaxRingFrames
    /\ \E deltaTime \in RingDeltas(Cur), rnd \in WanderDraws, stream \in Streams :
          Commit(ringLoop([Cur EXCEPT !.game.rafPending = @ - 1], deltaTime, rnd, stream),
                 "frame")

NextRing == RingStart \/ RingFrame

SpecRing == InitRing /\ [][NextRing]_vars

----------------------------------------------------------------------------
(* Runs that end in the player's death and are restarted: a frame lasts    *)
(* one tick, one second, or one tick less than a second, so that the last  *)
(* contact damage can fall in a frame in which the ring is expanding       *)

\* clock.getDelta(): 1/30 s, 29/30 s or 1 s
DeathDeltas(g) == IF g.game.clockRunning THEN {1, 29, 30} ELSE {0}

DeathReaches(g, deltaTime) == Reaches(g, deltaTime) \cap {{}, AliveIds(g)}

\* main.ts: game.start()
DeathStart ==
    /\ ~game.started
    /\ \E deltaTime \in DeathDeltas(Cur) :
       \E reach \in DeathReaches(Cur, deltaTime), touch \in BOOLEAN :
          Commit(start([Cur EXCEPT !.game.started = TRUE], deltaTime, reach, touch), "start")

\* a requestAnimationFrame callback fires: gameLoop()
DeathFrame ==
    /\ game.rafPending > 0
    /\ game.isRunning => hist.frames < MaxDeathFrames
    /\ LET g == [Cur EXCEPT !.game.rafPending = @ - 1]
       IN  \E deltaTime \in DeathDeltas(g) :
           \E reach \in DeathReaches(g, deltaTime), touch \in BOOLEAN :
              Commit(gameLoop(g, deltaTime, reach, touch), "frame")

\* onKeyDown(event) with code Space on the game-over screen: restart()
DeathRestart ==
    /\ game.isGameOver
    /\ hist.frames < MaxDeathFrames
    /\ LET g == restartReset(Cur)
       IN  \E deltaTime \in DeathDeltas(g) :
           \E reach \in DeathReaches(g, deltaTime), touch \in BOOLEAN :
              Commit(start(g, deltaTime, reach, touch), "restart")

NextDeath == DeathStart \/ DeathFrame \/ DeathRestart

SpecDeath == Init /\ [][NextDeath]_vars


----------------------------------------------------------------------------
(* One run of the game over many frames, until the player dies: frames are *)
(* short (the ring is expanding) or long (the cooldown elapses), the ring  *)
(* reaches every living enemy or none                                      *)

RunDeltas(g) == IF g.game.clockRunning THEN {2, MaxDelta} ELSE {0}

RunReaches(g, deltaTime) == Reaches(g, deltaTime) \cap {{}, AliveIds(g)}

\* main.ts: game.start()
RunStart ==
    /\ ~game.started
    /\ \E deltaTime \in RunDeltas(Cur) :
       \E reach \in RunReaches(Cur, deltaTime), touch \in BOOLEAN :
          Commit(start([Cur EXCEPT !.game.started = TRUE], deltaTime, reach, touch), "start")

\* a requestAnimationFrame callback fires: gameLoop()
RunFrame ==
    /\ game.rafPending > 0
    /\ game.isRunning => hist.frames < MaxRunFrames
    /\ LET g == [Cur EXCEPT !.game.rafPending = @ - 1]
       IN  \E deltaTime \in RunDeltas(g) :
           \E reach \in RunReaches(g, deltaTime), touch \in BOOLEAN :
              Commit(gameLoop(g, deltaTime, reach, touch), "frame")

NextRun == RunStart \/ RunFrame

SpecRun == Init /\ [][NextRun]_vars

----------------------------------------------------------------------------
(* The game loop together with the fire-and-forget timers it sets: the     *)
(* callbacks run at any time between two frames                            *)

\* HUD.showLevelUp(): clears the pending timeout, shows the banner, sets a new timeout
HUD_showLevelUp(u) == [u EXCEPT !.levelUpVisible = TRUE, !.levelUpTimeout = TRUE]

\* HUD.flashDamage()
HUD_flashDamage(u) == [u EXCEPT !.healthFlash = TRUE, !.damageTimeouts = @ + 1]

\* CombatSystem.flashEnemy(enemy): the callback keeps the emissive colour read now
flashEnemy(u, id) ==
    [u EXCEPT !.enemyTimeouts =
                  Append(@, [enemy |-> id,
                             originalEmissive |-> IF id \in u.white THEN "white" ELSE "base"]),
              !.white = @ \cup {id}]

\* CombatSystem.startDeathAnimation(enemy): material.emissive.setHex(0xffffff)
deathFlash(u, id) == [u EXCEPT !.white = @ \cup {id}]

RECURSIVE hitFlashes(_, _, _)
hitFlashes(u, events, i) ==
    IF i > Len(events) THEN u
    ELSE hitFlashes(IF events[i].killed THEN deathFlash(u, events[i].enemy)
                                        ELSE flashEnemy(u, events[i].enemy),
                    events, i + 1)

\* what the pass that led from g0 to g1 did to the materials and to the HUD
withUI(g0, g1) ==
    IF g1.hist.frames = g0.hist.frames THEN g1
    ELSE LET u1 == hitFlashes(g1.ui, g1.hist.events, 1)
             u2 == IF g1.hist.levelUps > 0 THEN HUD_showLevelUp(u1) ELSE u1
             u3 == IF g1.hist.contact THEN HUD_flashDamage(u2) ELSE u2
         IN  [g1 EXCEPT !.ui = u3]

\* the callback of flashEnemy, with `enemy.currentHealth = enemy.maxHealth` added
flashRestore_heal(g) ==
    LET t == Head(g.ui.enemyTimeouts)
    IN  [g EXCEPT !.ui.white = IF t.originalEmissive = "base" THEN @ \ {t.enemy} ELSE @,
                  !.ui.enemyTimeouts = Tail(@),
                  !.enemyObj = [id \in DOMAIN g.enemyObj |->
                                   IF id = t.enemy
                                   THEN [g.enemyObj[id] EXCEPT
                                            !.currentHealth = g.enemyObj[id].maxHealth]
                                   ELSE g.enemyObj[id]]]

\* the callback of flashEnemy: material.emissive.setHex(originalEmissive)
flashRestore(g) ==
    LET t == Head(g.ui.enemyTimeouts)
    IN  [g EXCEPT !.ui.white = IF t.originalEmissive = "base" THEN @ \ {t.enemy} ELSE @,
                  !.ui.enemyTimeouts = Tail(@)]

\* the callback of HUD.flashDamage: healthBar.style.boxShadow = ''
damageFlashEnd(g) ==
    [g EXCEPT !.ui.healthFlash = FALSE, !.ui.damageTimeouts = @ - 1]

\* the callback of HUD.showLevelUp: hide the banner, levelUpTimeout = null
levelUpHide(g) ==
    [g EXCEPT !.ui.levelUpVisible = FALSE, !.ui.levelUpTimeout = FALSE]

TimersBelowBound ==
    /\ Len(ui.enemyTimeouts) < MaxTimers
    /\ ui.damageTimeouts < MaxTimers

\* main.ts: game.start()
UiStart ==
    /\ ~game.started
    /\ \E deltaTime \in RunDeltas(Cur) :
       \E reach \in RunReaches(Cur, deltaTime), touch \in BOOLEAN :
          LET g == [Cur EXCEPT !.game.started = TRUE]
          IN  Commit(withUI(g, start(g, deltaTime, reach, touch)), "start")

\* a requestAnimationFrame callback fires: gameLoop()
UiFrame ==
    /\ game.rafPending > 0
    /\ game.isRunning => hist.frames < MaxUIFrames /\ TimersBelowBound
    /\ LET g == [Cur EXCEPT !.game.rafPending = @ - 1]
       IN  \E deltaTime \in RunDeltas(g) :
           \E reach \in RunReaches(g, deltaTime), touch \in BOOLEAN :
              Commit(withUI(g, gameLoop(g, deltaTime, reach, touch)), "frame")

\* setTimeout(..., 100) of flashEnemy fires; equal delays fire in the order set
UiFlashRestore ==
    /\ Len(ui.enemyTimeouts) > 0
    /\ Commit(flashRestore(Cur), "flashRestore")

\* setTimeout(..., 150) of HUD.flashDamage fires
UiDamageFlashEnd ==
    /\ ui.damageTimeouts > 0
    /\ Commit(damageFlashEnd(Cur), "damageFlashEnd")

\* setTimeout(..., 2000) of HUD.showLevelUp fires
UiLevelUpHide ==
    /\ ui.levelUpTimeout
    /\ Commit(levelUpHide(Cur), "levelUpHide")

NextUI == UiStart \/ UiFrame \/ UiFlashRestore \/ UiDamageFlashEnd \/ UiLevelUpHide

SpecUI == Init /\ [][NextUI]_vars

----------------------------------------------------------------------------
(* AreaPulse driven as the game loop drives it (update, then the           *)
(* auto-attack), with direct attack() calls and level-ups in between       *)

DamageMultipliers == {100, 150}
Origins == {Vector3(0, playerHeight, 0), Vector3(6, playerHeight, -6)}

\* hist.charge: frame time since the last successful attack, weighted with the
\* attack rate of each frame (deltaTime * attackRate, 100 = one tick at rate 1.0)
WpCommit(a, op, multiplier, charge, deltaTime) ==
    /\ weapon' = a.weapon
    /\ hist' = [hist EXCEPT !.lastOp = op,
                            !.attacked = a.success,
                            !.attackResult = [success |-> a.success, damage |-> a.damage,
                                              radius |-> a.radius],
                            !.amount = multiplier,
                            !.deltaTime = deltaTime,
                            !.charge = IF a.success THEN 0 ELSE charge]
    /\ UNCHANGED <<game, playerStats, progression, combat, enemyObj, scene, hud, geo, ui>>

\* gameLoop(), lines 136-145
WpFrame ==
    \E deltaTime \in DeltaTimes :
        WpCommit(autoAttack(weapon, deltaTime, playerStats, geo.player), "weaponFrame",
                 playerStats.damageMultiplier,
                 hist.charge + deltaTime * playerStats.attackRate, deltaTime)

\* weapon.attack(origin, damageMultiplier), whatever the cooldown
WpAttack ==
    \E origin \in Origins, damageMultiplier \in DamageMultipliers :
        WpCommit(attack(weapon, origin, damageMultiplier), "attack", damageMultiplier,
                 hist.charge, 0)

\* a level-up between two frames: addXP with the XP that is missing
WpLevelUp ==
    /\ playerStats.level < MaxLevel
    /\ LET r == addXP(progression, playerStats,
                      progression.xpToNextLevel - progression.currentXP)
       IN  /\ progression' = r.prog
           /\ playerStats' = r.stats
    /\ hist' = [hist EXCEPT !.lastOp = "levelUp", !.attacked = FALSE]
    /\ UNCHANGED <<game, weapon, combat, enemyObj, scene, hud, geo, ui>>

NextWeapon == WpFrame \/ WpAttack \/ WpLevelUp

SpecWeapon == Init /\ [][NextWeapon]_vars

----------------------------------------------------------------------------
(* Properties *)

FrameRan == hist'.frames = hist.frames + 1

\* C1: within one pulse (from a successful attack until the pulse deactivates)
\* processPulseHits reports at most one DamageEvent for any enemy, however many
\* frames the enemy stays inside the growing ring.
AtMostOneHitPerPulse ==
    \A id \in DOMAIN hist.pulseHits : hist.pulseHits[id] <= 1

\* a wounded enemy, hit earlier by the pulse that is still expanding
C1_Witness ==
    /\ weapon.isPulsing
    /\ weapon.currentPulseRadius >= 2
    /\ hist.events = <<>>
    /\ \E id \in AliveIds(Cur) :
          id \in combat.hitByCurrentPulse /\ hist.pulseHits[id] = 1

\* C2: every enemy produces at most one DamageEvent with killed = true, and the
\* number of awardKillXP calls equals the number of enemies whose isAlive became
\* false.
KillAwardedOnce ==
    /\ \A id \in DOMAIN hist.killEvents : hist.killEvents[id] <= 1
    /\ hist.killAwards = hist.deaths

\* two enemies killed, one hit left alive, frames have passed since
C2_Witness ==
    /\ hist.deaths >= 2
    /\ hist.killAwards >= 2
    /\ \E i \in 1..Len(hist.events) : ~hist.events[i].killed

RECURSIVE SumXPForLevels(_)
SumXPForLevels(n) == IF n = 0 THEN 0 ELSE xpForLevel(n) + SumXPForLevels(n - 1)

\* C4: the XP awarded since the run started equals currentXP plus the
\* requirements of the levels already completed.
XPConserved ==
    hist.totalXP = progression.currentXP + SumXPForLevels(playerStats.level - 1)

\* two levels completed with XP carried over
C4_Witness ==
    /\ playerStats.level >= 3
    /\ progression.currentXP > 0

\* C5: when contact damage brings currentHealth to 0, gameOver() runs exactly
\* once, and a frame callback that fires while the game is over changes no
\* gameplay state.
GameOverOnce ==
    /\ [][ (FrameRan /\ playerStats.currentHealth > 0 /\ playerStats'.currentHealth = 0)
              => /\ hist'.gameOverCalls = hist.gameOverCalls + 1
                 /\ game'.isGameOver /\ ~game'.isRunning /\ hud'.gameOverVisible ]_vars
    /\ [][ hist'.gameOverCalls # hist.gameOverCalls
              => /\ hist'.gameOverCalls = hist.gameOverCalls + 1
                 /\ playerStats'.currentHealth = 0 ]_vars
    /\ [][ (game.isGameOver /\ hist'.lastOp = "frame")
              => /\ UNCHANGED <<playerStats, progression, weapon, combat, enemyObj, scene>>
                 /\ game'.currentWave = game.currentWave
                 /\ game'.enemies = game.enemies
                 /\ game'.isGameOver ]_vars

\* the callback requested by the fatal frame has fired and returned
C5_Witness ==
    /\ game.isGameOver
    /\ playerStats.currentHealth = 0
    /\ hist.lastOp = "frame"
    /\ game.rafPending = 0

\* C6: after a restart the player stats are the defaults, the wave is 1, XP
\* is 0 of 100, the live enemies are a fresh wave of 3, the game-over flag is
\* cleared and the loop runs.
RestartResetsAll ==
    hist.lastOp = "restart" =>
        /\ playerStats = createDefaultStats
        /\ game.currentWave = 1
        /\ progression.currentXP = 0
        /\ progression.xpToNextLevel = 100
        /\ Len(game.enemies) = 3
        /\ \A i \in 1..Len(game.enemies) :
              /\ enemyObj[game.enemies[i]].isAlive
              /\ enemyObj[game.enemies[i]].currentHealth = enemyObj[game.enemies[i]].maxHealth
        /\ ~game.isGameOver
        /\ game.isRunning
        /\ game.rafPending > 0

\* C7: 0 <= currentHealth <= maxHealth and level >= 1 in every reachable state.
PlayerHealthInRange ==
    /\ 0 <= playerStats.currentHealth
    /\ playerStats.currentHealth <= playerStats.maxHealth
    /\ playerStats.level >= 1

\* a damaged player just healed by a level-up, below the cap
C7_Witness ==
    /\ hist.levelUps > 0
    /\ playerStats.level >= 2
    /\ playerStats.currentHealth > 0
    /\ playerStats.currentHealth < playerStats.maxHealth

\* C8: an enemy's currentHealth is never negative and never above maxHealth;
\* damage >= the remaining health leaves currentHealth = 0 and isAlive = false.
EnemyHealthClamped ==
    /\ \A id \in DOMAIN enemyObj :
          /\ 0 <= enemyObj[id].currentHealth
          /\ enemyObj[id].currentHealth <= enemyObj[id].maxHealth
    /\ \A i \in 1..Len(hist.events) :
          hist.events[i].damage >= hist.events[i].healthBefore
             => /\ enemyObj[hist.events[i].enemy].currentHealth = 0
                /\ ~enemyObj[hist.events[i].enemy].isAlive

\* a hit whose damage exceeds the remaining health
C8_Witness ==
    \E i \in 1..Len(hist.events) :
        /\ hist.events[i].damage > hist.events[i].healthBefore
        /\ hist.events[i].killed

\* C9: from one frame to the next of the same pulse the current radius does
\* not decrease and the previous radius is the current radius of the frame
\* before; previousRadius <= currentRadius.
RadiusMonotonic ==
    /\ [](weapon.previousPulseRadius <= weapon.currentPulseRadius)
    /\ [][ (FrameRan /\ weapon.isPulsing /\ weapon'.isPulsing /\ ~hist'.attacked)
              => /\ weapon'.currentPulseRadius >= weapon.currentPulseRadius
                 /\ weapon'.previousPulseRadius = weapon.currentPulseRadius ]_vars

\* the ring grew from 1 to 3 in one frame
C9_Witness ==
    /\ weapon.isPulsing
    /\ weapon.previousPulseRadius = 1
    /\ weapon.currentPulseRadius = 3

\* C10: when a new pulse begins the hit-dedup set is empty.
HitSetEmptyAtPulseStart ==
    hist.attacked => combat.hitByCurrentPulse = {}

\* C11: attack() called while currentCooldown > 0 returns the no-op result
\* (success = false, damage 0, radius 0) and leaves the weapon as it was:
\* cooldown, active flag, both radii, pulse origin and pendingDamage.
AttackOnCooldownIsNoOp ==
    [][hist'.lastOp = "attack" /\ weapon.currentCooldown > 0
          => /\ hist'.attackResult = [success |-> FALSE, damage |-> 0, radius |-> 0]
             /\ weapon'.currentCooldown = weapon.currentCooldown
             /\ weapon'.isPulsing = weapon.isPulsing
             /\ weapon'.previousPulseRadius = weapon.previousPulseRadius
             /\ weapon'.currentPulseRadius = weapon.currentPulseRadius
             /\ weapon'.pulseOrigin = weapon.pulseOrigin
             /\ weapon'.pendingDamage = weapon.pendingDamage
             /\ weapon' = weapon]_vars

\* attack() was refused while a ring with positive radius was expanding from
\* another origin than the one passed to the call
C11_Witness ==
    /\ hist.lastOp = "attack"
    /\ ~hist.attackResult.success
    /\ weapon.isPulsing
    /\ weapon.currentPulseRadius > 0
    /\ weapon.pulseOrigin = Vector3(0, playerHeight, 0)
    /\ weapon.currentCooldown > 0

\* C12: a successful attack (currentCooldown <= 0) sets currentCooldown to
\* baseCooldown, starts an active pulse with previousRadius = currentRadius = 0
\* and pendingDamage = baseDamage x damageMultiplier, and does not change the
\* health of any enemy.
SuccessfulAttackStartsPulse ==
    [][hist'.lastOp \in {"attack", "weaponFrame"} /\ hist'.attackResult.success
          => /\ weapon'.currentCooldown = baseCooldown
             /\ weapon'.isPulsing
             /\ weapon'.previousPulseRadius = 0
             /\ weapon'.currentPulseRadius = 0
             /\ weapon'.pendingDamage * 100 = baseDamage * hist'.amount
             /\ getPulseState(weapon').damage = weapon'.pendingDamage
             /\ enemyObj' = enemyObj]_vars

\* an attack of a player whose damage multiplier was raised by a level-up
C12_Witness ==
    /\ hist.lastOp = "weaponFrame"
    /\ hist.attackResult.success
    /\ playerStats.damageMultiplier > 100
    /\ weapon.pendingDamage > baseDamage
    /\ weapon.currentCooldown = baseCooldown

\* C13: with attack rate r the cooldown between two consecutive auto-attacks is
\* baseCooldown / r: the frame time accumulated since the last successful
\* attack, weighted with the attack rate, never reaches baseCooldown without
\* the next attack taking place.
CooldownScalesWithAttackRate ==
    hist.charge < baseCooldown * 100

\* C17: a killed enemy stays in the game loop's live enemy collection until its
\* dying timer has expired, and is removed from it only then.
DyingEnemyStaysInLiveCollection ==
    \A i \in 1..Len(combat.dyingEnemies) :
        combat.dyingEnemies[i].timer > 0
            => combat.dyingEnemies[i].enemy \in SeqToSet(game.enemies)

\* the enemies killed by the ring hits of the step
KilledInStep == {hist'.events[i].enemy : i \in {j \in 1..Len(hist'.events) : hist'.events[j].killed}}

\* C18: the initial wave has 3 enemies; within a run the wave counter goes up
\* by exactly 1 in every game-loop pass after whose cleanup no living enemy
\* remains and is unchanged by every other step; the wave spawned when the
\* counter becomes w has 3 + w fresh enemies.
WaveAdvancesWhenCleared ==
    /\ game.currentWave = 1 /\ Len(game.enemies) = 3
    /\ [][IF hist'.lastOp = "restart"
          THEN game'.currentWave = 1
          ELSE IF FrameRan /\ AliveIds(Cur) \ KilledInStep = {}
          THEN /\ game'.currentWave = game.currentWave + 1
               /\ Len(game'.enemies) = 3 + game'.currentWave
               /\ \A id \in SeqToSet(game'.enemies) :
                      id \notin DOMAIN enemyObj /\ enemyObj'[id].isAlive
          ELSE game'.currentWave = game.currentWave]_vars

\* wave 1 was cleared and the second wave, of 5 enemies, is in the arena
C18_Witness ==
    /\ hist.lastOp = "frame"
    /\ game.currentWave = 2
    /\ Len(game.enemies) = 5
    /\ hist.deaths = 3

\* C14: while a pulse is active, a living enemy not yet hit by it is hit by a
\* processPulseHits call if and only if its ground-plane (x, z) distance to the
\* pulse origin is <= currentRadius, heights ignored.
RingHitsByGroundDistance ==
    hist.lastOp = "processPulseHits" /\ hist.pulse.active
        => LET hit == {hist.events[i].enemy : i \in 1..Len(hist.events)}
               o == hist.pulse.origin
               r == 2 * hist.pulse.currentRadius
           IN  \A id \in SeqToSet(game.enemies) :
                  LET p == geo.enemy[id].position
                      ground == (p.x - o.x) * (p.x - o.x) + (p.z - o.z) * (p.z - o.z)
                  IN  id \in hit \/ (enemyObj[id].isAlive /\ id \notin combat.hitByCurrentPulse)
                         => (id \in hit <=> ground <= r * r)

\* C15: checkPlayerCollision returns true if and only if some living enemy's
\* centre is within playerRadius + 0.5 (1.3 world units) of the player's
\* position; dead enemies never cause contact.
ContactIffLivingEnemyNear ==
    hist.lastOp = "checkPlayerCollision"
        => (hist.contact <=>
               \E id \in SeqToSet(game.enemies) :
                  LET p == geo.enemy[id].position
                  IN  /\ enemyObj[id].isAlive
                      /\ 25 * ((p.x - geo.player.x) * (p.x - geo.player.x)
                                 + (p.z - geo.player.z) * (p.z - geo.player.z))
                             + (p.y - geo.player.y) * (p.y - geo.player.y) < 169)

\* contact with a living enemy one world unit away, next to a dead one
C15_Witness ==
    /\ hist.lastOp = "checkPlayerCollision"
    /\ hist.contact
    /\ \E id \in SeqToSet(game.enemies) : ~enemyObj[id].isAlive
    /\ \E id \in SeqToSet(game.enemies) :
          /\ enemyObj[id].isAlive
          /\ geo.enemy[id].position.x # geo.player.x

\* C16: once isAlive is false, currentHealth, position and isAlive never change:
\* Enemy.update does not move the enemy, processPulseHits reports no
\* DamageEvent for it, it causes no contact, and CombatSystem.update leaves
\* its gameplay fields alone.
DeadEnemyImmutable ==
    [][\A id \in DOMAIN enemyObj :
          ~enemyObj[id].isAlive
              => /\ id \in DOMAIN enemyObj'
                 /\ enemyObj'[id] = enemyObj[id]
                 /\ geo'.enemy[id].position = geo.enemy[id].position
                 /\ hist'.lastOp = "processPulseHits"
                       => \A i \in 1..Len(hist'.events) : hist'.events[i].enemy # id
                 /\ hist'.lastOp = "checkPlayerCollision" /\ hist'.contact
                       => withinContact(Cur) \ {id} # {}]_vars

\* update() was called on a dead enemy that is away from the player
C16_Witness ==
    /\ hist.lastOp = "enemyUpdate"
    /\ Len(game.enemies) = 1
    /\ ~enemyObj[game.enemies[1]].isAlive
    /\ geo.enemy[game.enemies[1]].position.x # geo.player.x

\* C19: after every update call and at spawn, the player and every enemy of
\* either type are within the arena bounds on x and on z.
AllWithinBounds ==
    LET inside(p) == /\ arenaBounds.minX <= p.x /\ p.x <= arenaBounds.maxX
                     /\ arenaBounds.minZ <= p.z /\ p.z <= arenaBounds.maxZ
    IN  /\ inside(geo.player)
        /\ \A id \in DOMAIN geo.enemy : inside(geo.enemy[id].position)

\* a wanderer heading out of the arena was stopped at the bound
C19_Witness ==
    /\ hist.lastOp = "enemyUpdate"
    /\ \E id \in SeqToSet(game.enemies) :
          /\ enemyObj[id].type = "wanderer"
          /\ geo.enemy[id].position.x = arenaBounds.maxX
          /\ geo.enemy[id].wanderDirection.x = 1

\* C20: spawnWave(count, playerPosition, wave) returns exactly count enemies,
\* the one at index i a chaser (the fast type) when i is even and a wanderer
\* (the tough type) when i is odd, all alive with currentHealth = maxHealth.
SpawnWaveAlternates ==
    hist.lastOp = "spawnWave"
        => /\ Len(game.enemies) = hist.call.count
           /\ chaserSpeed > wandererSpeed
           /\ \A i \in 1..Len(game.enemies) :
                 LET e == enemyObj[game.enemies[i]]
                 IN  /\ e.type = IF (i - 1) % 2 = 0 THEN "chaser" ELSE "wanderer"
                     /\ e.isAlive
                     /\ e.maxHealth > 0
                     /\ e.currentHealth = e.maxHealth

\* a wave of two for wave 2: a chaser, then a wanderer with more health
C20_Witness ==
    /\ hist.lastOp = "spawnWave"
    /\ hist.call = [count |-> 2, wave |-> 2]
    /\ Len(game.enemies) = 2
    /\ enemyObj[game.enemies[1]].maxHealth < enemyObj[game.enemies[2]].maxHealth

\* C21: an enemy spawned at wave w has maxHealth 20 + 15 x (w - 1) as a chaser
\* and 50 + 25 x (w - 1) as a wanderer (health in 1/6 hp; a chaser of wave 3
\* has 50 hp); afterwards its type and maxHealth never change and
\* currentHealth changes only by going down by the damage of a ring hit.
EnemyHealthByWave ==
    /\ newEnemy("chaser", 3).maxHealth = 6 * 50
    /\ [](hist.lastOp = "spawnWave" =>
            \A id \in SeqToSet(game.enemies) :
               /\ enemyObj[id].type = "chaser"
                     => enemyObj[id].maxHealth = 6 * (20 + 15 * (hist.call.wave - 1))
               /\ enemyObj[id].type = "wanderer"
                     => enemyObj[id].maxHealth = 6 * (50 + 25 * (hist.call.wave - 1)))
    /\ [][\A id \in DOMAIN enemyObj \cap DOMAIN enemyObj' :
             /\ enemyObj'[id].type = enemyObj[id].type
             /\ enemyObj'[id].maxHealth = enemyObj[id].maxHealth
             /\ enemyObj'[id].currentHealth # enemyObj[id].currentHealth
                   => /\ hist'.lastOp = "processPulseHits"
                      /\ \E i \in 1..Len(hist'.events) :
                            /\ hist'.events[i].enemy = id
                            /\ enemyObj'[id].currentHealth =
                                  Max(0, enemyObj[id].currentHealth - hist'.events[i].damage)]_vars

\* a wanderer of wave 2 (75 hp) was hit by the ring and lives on with 50 hp
C21_Witness ==
    /\ hist.lastOp = "processPulseHits"
    /\ \E id \in SeqToSet(game.enemies) :
          /\ enemyObj[id].type = "wanderer"
          /\ enemyObj[id].maxHealth = 6 * 75
          /\ enemyObj[id].currentHealth = 6 * 50
          /\ enemyObj[id].isAlive

\* C22: for every enemy of a wave the position search draws at most 20
\* candidates and always yields a position: the accepted candidate is at least
\* 5 units from the player's position, or it is the 20th candidate, accepted
\* whatever its distance.
SpawnSearchTerminates ==
    hist.lastOp = "spawnWave"
        => /\ Len(hist.search) = hist.call.count
           /\ Len(game.enemies) = hist.call.count
           /\ \A i \in 1..Len(hist.search) :
                 LET p == hist.search[i].position
                     d2 == 25 * ((p.x - geo.player.x) * (p.x - geo.player.x)
                                   + (p.z - geo.player.z) * (p.z - geo.player.z))
                             + (p.y - geo.player.y) * (p.y - geo.player.y)
                 IN  /\ hist.search[i].attempts >= 1
                     /\ hist.search[i].attempts <= 20
                     /\ d2 >= 2500 \/ hist.search[i].attempts = 20
                     /\ geo.enemy[game.enemies[i]].position = [p EXCEPT !.y = enemyHeight]

\* twenty candidates next to the player: the last one was accepted, one world
\* unit from the player
C22_Witness ==
    /\ hist.lastOp = "spawnWave"
    /\ \E i \in 1..Len(hist.search) :
          /\ hist.search[i].attempts = 20
          /\ hist.search[i].position = Vector3(10, 0, 0)
          /\ geo.player = Vector3(8, playerHeight, 0)

\* the XP earned in the run: currentXP plus the requirements of the levels completed
EarnedXP(prog, stats) == prog.currentXP + SumXPForLevels(stats.level - 1)

\* C23: every kill of a game-loop pass awards floor(25 x (1 + (wave - 1) x 0.5))
\* XP, wave being the game's current wave when the enemy is killed (25 at
\* wave 1, 37 at wave 2, 50 at wave 3); currentXP is never negative.
KillXPByWave ==
    /\ [](progression.currentXP >= 0)
    /\ [][FrameRan =>
            EarnedXP(progression', playerStats') - EarnedXP(progression, playerStats)
               = Cardinality(KilledInStep) * ((25 * (2 + (game.currentWave - 1))) \div 2)]_vars

\* an enemy of wave 3 was killed, for 50 XP
C23_Witness ==
    /\ hist.lastOp = "frame"
    /\ game.currentWave = 3
    /\ hist.deaths > 8
    /\ \E i \in 1..Len(hist.events) : hist.events[i].killed
    /\ EarnedXP(progression, playerStats) = 3 * 25 + 5 * 37 + (hist.deaths - 8) * 50

LevelUpEffects ==
    [][hist'.lastOp \in {"addXP", "awardKillXP"} =>
         /\ hist'.levelUps > 0 =>
               /\ playerStats'.level = playerStats.level + 1
               /\ playerStats'.damageMultiplier = playerStats.damageMultiplier + 10
               /\ playerStats'.attackRate = playerStats.attackRate + 5
               /\ playerStats'.moveSpeed = playerStats.moveSpeed + 3
               /\ playerStats'.maxHealth = playerStats.maxHealth
               /\ 5 * playerStats'.currentHealth =
                     IF 5 * playerStats.currentHealth + playerStats.maxHealth
                           <= 5 * playerStats.maxHealth
                     THEN 5 * playerStats.currentHealth + playerStats.maxHealth
                     ELSE 5 * playerStats.maxHealth
               /\ progression'.xpToNextLevel * Pow(2, playerStats.level)
                     <= 100 * Pow(3, playerStats.level)
               /\ (progression'.xpToNextLevel + 1) * Pow(2, playerStats.level)
                     > 100 * Pow(3, playerStats.level)
         /\ hist'.levelUps = 0 => playerStats' = playerStats
         /\ (playerStats.level = 1 /\ progression.xpToNextLevel = 100 /\ hist'.amount = 25)
               => IF progression.currentXP = 75
                  THEN /\ hist'.levelUps = 1
                       /\ playerStats'.level = 2
                       /\ progression'.currentXP = 0
                       /\ progression'.xpToNextLevel = 150
                  ELSE progression.currentXP < 75
                          => /\ hist'.levelUps = 0
                             /\ playerStats'.level = 1
                             /\ progression'.currentXP = progression.currentXP + 25]_vars

\* the award of 25 XP that completed level 1 exactly, healing a damaged player
C25_Witness ==
    /\ hist.lastOp = "awardKillXP"
    /\ hist.amount = 25
    /\ hist.levelUps = 1
    /\ hist.totalXP = 100
    /\ playerStats.level = 2
    /\ progression.currentXP = 0
    /\ progression.xpToNextLevel = 150
    /\ playerStats.currentHealth < playerStats.maxHealth

\* C26: in every game-loop pass in which a living enemy is in contact with the
\* player, currentHealth goes down by 25 x deltaTime, clamped at 0, however
\* many enemies are in contact, and in no other pass; while no level-up has
\* healed the player, the health lost is 25 per second of contact (25 hp
\* after frames of contact that sum to one second).
ContactDamagePerFrame ==
    /\ [](playerStats.level = 1 /\ playerStats.currentHealth > 0
            => 30 * (playerStats.maxHealth - playerStats.currentHealth)
                  = 25 * 6 * hist.contactTime)
    /\ [](hist.contactTime = 30 /\ playerStats.level = 1
            => playerStats.currentHealth = playerStats.maxHealth - 6 * 25)
    /\ [][FrameRan =>
            LET before == IF hist'.lastOp = "restart" THEN playerStats'.maxHealth
                          ELSE playerStats.currentHealth
                healed == IF hist'.levelUps > 0
                          THEN Min(playerStats'.maxHealth,
                                   before + playerStats'.maxHealth \div 5)
                          ELSE before
            IN  30 * playerStats'.currentHealth =
                   IF hist'.contact
                   THEN Max(0, 30 * healed - 25 * 6 * hist'.deltaTime)
                   ELSE 30 * healed]_vars

\* three frames of contact with two living enemies, one second and a tenth
\* in all: 27.5 hp lost
C26_Witness ==
    /\ hist.lastOp = "frame"
    /\ hist.contact
    /\ hist.contactTime = 33
    /\ Cardinality(AliveIds(Cur)) = 2
    /\ playerStats.currentHealth = playerStats.maxHealth - 165

\* C27: under any interleaving of frame callbacks, Space keydown events and
\* start() / restart(), at most one requestAnimationFrame callback of gameLoop
\* is pending at any time, so the simulation is stepped once per rendered frame.
SingleCallbackChain ==
    game.rafPending <= 1

\* C28: the callbacks of the fire-and-forget timers (enemy hit-flash restore,
\* HUD damage-flash end, level-up banner hide) change no gameplay state,
\* wherever they run between two frames: player stats, XP, wave, the enemies'
\* health, alive flag and position, the weapon and the combat bookkeeping.
UITimersLeaveGameplayAlone ==
    [][hist'.lastOp \in {"flashRestore", "damageFlashEnd", "levelUpHide"}
          => UNCHANGED <<game, playerStats, progression, weapon, combat, enemyObj, geo>>]_vars

\* the banner of level 2 was hidden while a ring was expanding and the
\* hit-flash of a wounded enemy was still to be restored
C28_Witness ==
    /\ hist.lastOp = "levelUpHide"
    /\ playerStats.level = 2
    /\ ~ui.levelUpVisible
    /\ Len(ui.enemyTimeouts) > 0
    /\ \E id \in AliveIds(Cur) : enemyObj[id].currentHealth < enemyObj[id].maxHealth

\* the enemies of the dying list
DyingIds(c) == {c.dyingEnemies[i].enemy : i \in 1..Len(c.dyingEnemies)}

\* the timer of the dying enemy id
DyingTimer(c, id) ==
    c.dyingEnemies[CHOOSE i \in 1..Len(c.dyingEnemies) : c.dyingEnemies[i].enemy = id].timer

\* the step ran CombatSystem.update: a game-loop pass that did not end in gameOver()
UpdateRan == FrameRan /\ hist'.gameOverCalls = hist.gameOverCalls

\* the enemies killed by the game-loop pass of the step, none if no pass ran
KilledInPass == IF FrameRan THEN KilledInStep ELSE {}

\* C29: every enemy goes ALIVE -> DYING -> REMOVED and makes no other move: in
\* the pass that kills it, it enters the dying list once, with timer 0.3 s;
\* every CombatSystem.update lowers the timer by exactly deltaTime; the entry
\* is dropped, and the mesh leaves the scene, in the first update that brings
\* the timer to 0 or below, and not before.
DeathAnimationLifecycle ==
    /\ [](\A i, j \in 1..Len(combat.dyingEnemies) :
              combat.dyingEnemies[i].enemy = combat.dyingEnemies[j].enemy => i = j)
    /\ [](\A i \in 1..Len(combat.dyingEnemies) :
              /\ ~enemyObj[combat.dyingEnemies[i].enemy].isAlive
              /\ combat.dyingEnemies[i].timer > 0
              /\ combat.dyingEnemies[i].timer <= 9
              /\ combat.dyingEnemies[i].enemy \in scene)
    /\ [](\A id \in DOMAIN enemyObj :
              ~enemyObj[id].isAlive /\ id \notin DyingIds(combat) => id \notin scene)
    /\ [][/\ \A id \in KilledInPass :
                /\ id \notin DyingIds(combat)
                /\ IF UpdateRan /\ 9 - hist'.deltaTime <= 0
                   THEN id \notin DyingIds(combat') /\ id \notin scene'
                   ELSE /\ id \in DyingIds(combat')
                        /\ id \in scene'
                        /\ DyingTimer(combat', id)
                              = 9 - (IF UpdateRan THEN hist'.deltaTime ELSE 0)
          /\ \A id \in DyingIds(combat) :
                IF ~UpdateRan
                THEN id \in DyingIds(combat') /\ id \in scene'
                        /\ DyingTimer(combat', id) = DyingTimer(combat, id)
                ELSE IF DyingTimer(combat, id) - hist'.deltaTime <= 0
                THEN id \notin DyingIds(combat') /\ id \notin scene'
                ELSE /\ id \in DyingIds(combat')
                     /\ id \in scene'
                     /\ DyingTimer(combat', id) = DyingTimer(combat, id) - hist'.deltaTime
          /\ \A id \in DyingIds(combat') :
                id \in DyingIds(combat) \/ id \in KilledInPass]_vars

\* C30: whenever the pulse is inactive, at construction and after every
\* deactivation, the snapshot of getPulseState has previousRadius =
\* currentRadius = 0 and damage = 0; a pulse is deactivated by update only, and
\* exactly by the update at which the fade opacity max(0, 0.8 - 2 x animation
\* time) has reached 0 (here in 1/30: max(0, 24 - 2 x pulseAnimation)).
InactivePulseIsZero ==
    /\ [](~weapon.isPulsing =>
              /\ ~getPulseState(weapon).active
              /\ getPulseState(weapon).previousRadius = 0
              /\ getPulseState(weapon).currentRadius = 0
              /\ getPulseState(weapon).damage = 0)
    /\ [][weapon.isPulsing /\ hist'.lastOp # "weaponFrame"
            => weapon'.isPulsing /\ weapon'.pulseAnimation <= weapon.pulseAnimation]_vars
    /\ [][weapon.isPulsing /\ hist'.lastOp = "weaponFrame"
            => LET animTime == weapon.pulseAnimation + 3 * hist'.deltaTime
                   ended == ~weapon'.isPulsing \/ weapon'.pulseAnimation = 0
               IN  /\ ended <=> Max(0, 24 - 2 * animTime) = 0
                   /\ ~ended => weapon'.pulseAnimation = animTime]_vars

\* a pulse has just been deactivated by the update in which its opacity first
\* was 0 (animation time 0.4), and the weapon is still cooling down
C30_Witness ==
    /\ hist.lastOp = "weaponFrame"
    /\ ~weapon.isPulsing
    /\ weapon.pulseAnimation = 12
    /\ weapon.currentCooldown > 0
    /\ getPulseState(weapon).damage = 0

\* C31: processPulseHits called with an inactive pulse returns no event, leaves
\* the hit set empty, changes no enemy's health or isAlive and adds nothing to
\* the dying list.
InactivePulseHitsNothing ==
    [][hist'.lastOp = "processPulseHits" /\ ~hist'.pulse.active
          => /\ hist'.events = <<>>
             /\ combat'.hitByCurrentPulse = {}
             /\ combat'.dyingEnemies = combat.dyingEnemies
             /\ enemyObj' = enemyObj]_vars

\* the call with the inactive pulse came while an enemy wounded by an earlier
\* call was still alive
C31_Witness ==
    /\ hist.lastOp = "processPulseHits"
    /\ ~hist.pulse.active
    /\ combat.hitByCurrentPulse = {}
    /\ \E id \in AliveIds(Cur) : enemyObj[id].currentHealth < enemyObj[id].maxHealth

\* C32: within a game-loop pass the ring hits and the XP awards come before the
\* contact check and the player damage: an enemy killed by the pulse in a pass
\* adds no contact damage in that pass (contact is found only if an enemy of
\* the collection is alive after the hits, and a pass that kills every living
\* enemy does not hurt the player), and the heal of a level-up earned by a kill
\* of the pass is applied, capped at maxHealth, before the contact damage of
\* the pass is subtracted and before the player's death is decided.
FixedFrameOrder ==
    [][FrameRan =>
         LET healed == Min(playerStats'.maxHealth,
                           playerStats.currentHealth
                              + hist'.levelUps * (playerStats'.maxHealth \div 5))
             damage == ContactDamage(hist'.deltaTime)
         IN  /\ hist'.contact =>
                   \E id \in SeqToSet(game'.enemies) :
                       enemyObj'[id].isAlive /\ id \notin KilledInPass
             /\ hist'.lastOp # "restart" /\ AliveIds(Cur) \subseteq KilledInPass =>
                   /\ ~hist'.contact
                   /\ playerStats'.currentHealth >= playerStats.currentHealth
             /\ hist'.lastOp # "restart" /\ hist'.contact /\ hist'.levelUps > 0 =>
                   /\ playerStats'.currentHealth = Max(0, healed - damage)
                   /\ game'.isGameOver <=> healed - damage <= 0]_vars

\* in one pass an enemy was killed, the kill brought a level-up whose heal was
\* capped at full health, and another enemy then touched the player: the
\* player ends the pass below full health by the contact damage of the pass
C32_Witness ==
    /\ hist.lastOp = "frame"
    /\ hist.levelUps = 1
    /\ hist.contact
    /\ \E i \in 1..Len(hist.events) : hist.events[i].killed
    /\ playerStats.currentHealth = playerStats.maxHealth - ContactDamage(hist.deltaTime)

\* C33: one addXP call (awardKillXP included) raises the level by at most 1,
\* and by 1 exactly when currentXP + amount reaches xpToNextLevel, even when
\* the amount crosses several requirements; what exceeds the one requirement
\* stays in currentXP, and no other call looks at it: the level and the XP
\* counters stay as they are until the next addXP.
OneLevelPerAddXP ==
    [][/\ hist'.lastOp \in {"addXP", "awardKillXP"} =>
             LET sum == progression.currentXP + hist'.amount
                 up == sum >= progression.xpToNextLevel
             IN  /\ playerStats'.level = playerStats.level + (IF up THEN 1 ELSE 0)
                 /\ progression'.currentXP =
                        sum - (IF up THEN progression.xpToNextLevel ELSE 0)
       /\ hist'.lastOp = "applyDamage" =>
             /\ playerStats'.level = playerStats.level
             /\ progression' = progression]_vars

\* 400 XP at level 1: one level-up, and the 300 XP carried over are twice the
\* requirement of level 2 and stay there
C33_Witness ==
    /\ hist.lastOp = "addXP"
    /\ hist.amount = 400
    /\ playerStats.level = 2
    /\ progression.currentXP = 300
    /\ progression.currentXP >= 2 * progression.xpToNextLevel

EveryEnemyInRangeIsHit ==
    hist.missed = {}

\* C36: in the game loop, whenever a pulse is active at the end of a pass the
\* cooldown is above 0, and a new pulse begins only in a pass whose weapon
\* update has ended the previous one (its opacity had reached 0): no pulse is
\* replaced while it is active.
NoPulseWhilePulseActive ==
    /\ [](hist.lastOp \in {"start", "frame", "restart"} /\ weapon.isPulsing
            => weapon.currentCooldown > 0)
    /\ [][FrameRan /\ hist'.attacked /\ weapon.isPulsing
            => Max(0, 24 - 2 * (weapon.pulseAnimation + 3 * hist'.deltaTime)) = 0]_vars
    /\ [][FrameRan /\ weapon.isPulsing /\ weapon'.isPulsing /\ ~hist'.attacked
            => /\ weapon'.pulseOrigin = weapon.pulseOrigin
               /\ weapon'.pendingDamage = weapon.pendingDamage
               /\ weapon'.pulseAnimation > weapon.pulseAnimation]_vars

\* 0.1 s after the attack the ring is at full radius, the pulse still active
\* and the weapon cooling down
C36_Witness ==
    /\ hist.lastOp = "frame"
    /\ weapon.isPulsing
    /\ weapon.currentPulseRadius = baseRadius
    /\ weapon.currentCooldown = baseCooldown - 3
    /\ ~hist.attacked

\* C37: every killed enemy is eventually removed from the scene and from the
\* dying list, an enemy killed in or shortly before the pass in which the
\* player dies included. The loop requests no further callback once the game
\* is over, so when the last requested callback has returned every killed
\* enemy must already be gone: the dying list is empty and the scene holds no
\* dead enemy.
KilledEnemyRemovedWhenLoopStops ==
    (game.isGameOver /\ game.rafPending = 0) =>
        /\ DyingIds(combat) = {}
        /\ \A id \in scene \cap DOMAIN enemyObj : enemyObj[id].isAlive

\* C38: for every enemy in every reachable state, isAlive is true exactly when
\* currentHealth is above 0, and the isAlive of an enemy never goes from false
\* back to true.
AliveIffHealthAboveZero ==
    /\ [](\A id \in DOMAIN enemyObj :
             enemyObj[id].isAlive <=> enemyObj[id].currentHealth > 0)
    /\ [][\A id \in DOMAIN enemyObj \cap DOMAIN enemyObj' :
             ~enemyObj[id].isAlive => ~enemyObj'[id].isAlive]_vars

\* a pass has left one enemy killed (health 0) and another one wounded and
\* alive
C38_Witness ==
    /\ hist.lastOp = "frame"
    /\ \E id \in DOMAIN enemyObj :
          ~enemyObj[id].isAlive /\ enemyObj[id].currentHealth = 0
    /\ \E id \in DOMAIN enemyObj :
          /\ enemyObj[id].isAlive
          /\ enemyObj[id].currentHealth > 0
          /\ enemyObj[id].currentHealth < enemyObj[id].maxHealth

\* the wave parameter an Enemy was constructed with, read back from its maxHealth
spawnedWave(enemy) ==
    IF enemy.type = "chaser" THEN (enemy.maxHealth - 120) \div 90 + 1
                             ELSE (enemy.maxHealth - 300) \div 150 + 1

RECURSIVE KillXPBySpawnWave(_, _, _)
\* the XP of the kills of events[i..] when each one is paid by the wave its
\* enemy was spawned with
KillXPBySpawnWave(events, objs, i) ==
    IF i > Len(events) THEN 0
    ELSE (IF events[i].killed THEN killXP(spawnedWave(objs[events[i].enemy])) ELSE 0)
         + KillXPBySpawnWave(events, objs, i + 1)

\* C39: at the end of every pass every enemy of the live collection was
\* spawned with the wave the game's wave counter shows, and the kills of a pass
\* are paid with the wave their enemies were spawned with: the XP awarded in
\* the pass is the sum of killXP(spawn wave) over the killed enemies.
LiveEnemiesAreOfCurrentWave ==
    /\ [](\A i \in 1..Len(game.enemies) :
             spawnedWave(enemyObj[game.enemies[i]]) = game.currentWave)
    /\ [][FrameRan =>
            hist'.totalXP - (IF hist'.lastOp = "restart" THEN 0 ELSE hist.totalXP)
                = KillXPBySpawnWave(hist'.events, enemyObj', 1)]_vars

\* a pass in a later wave has killed an enemy of that wave and left others of
\* the wave alive
C39_Witness ==
    /\ hist.lastOp = "frame"
    /\ game.currentWave >= 2
    /\ \E i \in 1..Len(hist.events) :
          /\ hist.events[i].killed
          /\ spawnedWave(enemyObj[hist.events[i].enemy]) = game.currentWave
    /\ Len(game.enemies) > 0

\* C40: the pass in which the player dies returns before the death-animation
\* update, the cleanup of dead enemies, the wave-completion check and the
\* spawn: it leaves the wave counter, the live collection and the scene as they
\* were, advances no timer of the dying list (enemies killed in the pass enter
\* it with the full duration), and so the wave shown at game over is the wave
\* the pass began with.
FatalFrameSkipsCleanup ==
    [][(FrameRan /\ hist'.gameOverCalls # hist.gameOverCalls) =>
          /\ game'.currentWave = game.currentWave
          /\ game'.enemies = game.enemies
          /\ scene' = scene
          /\ Len(combat'.dyingEnemies) >= Len(combat.dyingEnemies)
          /\ \A i \in 1..Len(combat'.dyingEnemies) :
                IF i <= Len(combat.dyingEnemies)
                THEN combat'.dyingEnemies[i] = combat.dyingEnemies[i]
                ELSE /\ combat'.dyingEnemies[i].timer = deathAnimationDuration
                     /\ combat'.dyingEnemies[i].enemy \in KilledInStep]_vars

\* the fatal pass has just returned (its callback is still pending) and its
\* pulse killed an enemy, which is still in the live collection
C40_Witness ==
    /\ game.isGameOver
    /\ hist.lastOp = "frame"
    /\ game.rafPending > 0
    /\ playerStats.currentHealth = 0
    /\ \E i \in 1..Len(hist.events) :
          /\ hist.events[i].killed
          /\ hist.events[i].enemy \in SeqToSet(game.enemies)
          /\ ~enemyObj[hist.events[i].enemy].isAlive
=============================================================================
